---- MODULE Spec2Model ----
(***************************************************************************)
(* RFCOMM bridge of the BioRadio toolkit (src/src/rfcomm_bridge.py):       *)
(* the delegate that buffers native callbacks, the blocking read() built   *)
(* on it, the candidate-channel search of open(), and close().             *)
(* With it the RunLoop thread and its work queue, and the reply assembly   *)
(* and version parsing of the port diagnosis (src/src/bioradio_diagnose.py)*)
(***************************************************************************)
EXTENDS Integers, Sequences, FiniteSets, TLC

VARIABLES
    \* ---- inputs and result of the candidate-list construction ----
    services,         \* the device's SDP service records, in record order
    channel_id,       \* RFCOMMSerialBridge._channel_id
    sdp_channels,     \* open(): sdp_channels
    channels_to_try,  \* open(): channels_to_try
    cpc,              \* position of the list construction: "input" | "built"
    \* ---- RFCOMMSerialBridge ----
    b_is_open,        \* RFCOMMSerialBridge._is_open
    channel,          \* _channel: 0 (None) or the channel id the handle was opened for
    delegate,         \* _delegate is not None
    runloop_thread,   \* _runloop_thread is not None
    device,           \* _device is not None
    \* ---- the current _RFCOMMDelegate ----
    d_is_open,        \* _RFCOMMDelegate._is_open
    open_event,       \* _open_event.is_set()
    open_error,       \* _open_error: 0 (None) or the status
    closed_event,     \* _closed_event.is_set()
    data_event,       \* _data_event.is_set()
    buffer,           \* _buffer
    \* ---- the thread inside open() ----
    pc,               \* position of the caller inside open(), "idle" outside
    idx,              \* index of ch_id in channels_to_try
    result,           \* open(): result
    \* ---- the environment: device and native stack ----
    dev,              \* how the device answers an open of each channel
    bb_connected,     \* device.isConnected()
    native_open,      \* the channel of the current delegate is open natively
    pending,          \* open-complete callbacks not yet delivered
    leaked,           \* RunLoop threads started and never stopped
    \* ---- history ----
    attempts,         \* the open attempts of the current open() call
    outcome,          \* how the last call ended
    err,              \* the exception the last call raised
    calls,            \* API calls made so far
    prev_failed,      \* the open() call before the current one raised
    ok_seen,          \* this open() call's current delegate got open-complete status 0
    closed_seen,      \* a channel-closed callback arrived during this open() call
    \* ---- the RunLoop thread inside rfcommChannelData_data_length_ ----
    cb_pc,            \* "idle" | "set_event": extend done, _data_event.set() due
    \* ---- the thread inside read() ----
    rpc,              \* position of the reader inside read(), "idle" outside
    size,             \* read(size)
    timeout,          \* _timeout: -1 (None) or a number of time units
    deadline,         \* read(): deadline
    r_result,         \* read(): result
    wait_until,       \* when the reader's _data_event.wait(...) times out
    now,              \* time.monotonic()
    \* ---- history of the byte stream ----
    delivered,        \* every payload the data callback got, concatenated
    returned,         \* every result read() returned, concatenated
    r_start,          \* time.monotonic() when the current read() began
    closed_wake,      \* "pending": closed while the reader was blocked; "woken"
    \* ---- the RunLoop thread of the bridge, and what the API calls did ----
    rl_busy,          \* the RunLoop thread holds _work_lock: it drains the queue
    \* ---- _RunLoopThread and the callers of schedule_and_wait ----
    work_queue,       \* _work_queue: the ids of the queued work items
    rl_pc,            \* position of run(): "new" | "loop" | "drain" | "exec" | "pump" | "exited"
    cur,              \* the work item run() popped, 0 outside an item
    items,            \* every work item submitted: its func, result_holder, done_event
    sub,              \* each submitting thread's position inside schedule_and_wait
    sched_ret,        \* what each thread's last schedule_and_wait returned or raised
    begun,            \* ids of the items in the order their execution began
    finished,         \* ids of the items in the order their execution finished
    stop_event,       \* _RunLoopThread._stop_event.is_set()
    direct,           \* native calls the caller thread made itself in this API call
    faults,           \* native calls that failed in the last close()
    wr,               \* the last write(): what it returned or raised
    rd,               \* the last read(): how it ended, and whether it owes a byte
    \* ---- the frame codec: send_and_read and parse_firmware_response ----
    wire,             \* the bytes the device has still to send
    frame,            \* the frame the device encoded into its reply
    response,         \* send_and_read(): response
    s_pc,             \* position inside send_and_read(), "idle" outside
    s_deadline,       \* send_and_read(): deadline
    expected,         \* send_and_read(): what the last completeness check computed
    s_out,            \* how the read loop of send_and_read() ended
    rxbuf,            \* the bytes handed to the decoder and not yet consumed
    decoded,          \* the frames the decoder returned, in order
    fw_info           \* what parse_firmware_response(response) returned

chanVars == <<services, channel_id, sdp_channels, channels_to_try, cpc>>
bridgeVars == <<b_is_open, channel, delegate, runloop_thread, device>>
delegateVars == <<d_is_open, open_event, open_error, closed_event, data_event, buffer>>
openVars == <<pc, idx, result>>
envVars == <<dev, bb_connected, native_open, pending, leaked>>
histVars == <<attempts, outcome, err, calls, prev_failed, ok_seen, closed_seen>>

readVars == <<rpc, size, timeout, deadline, r_result, wait_until, r_start>>
streamVars == <<delivered, returned, closed_wake>>
ioVars == <<cb_pc, readVars, now, streamVars>>
auditVars == <<direct, faults>>
execVars == <<work_queue, rl_pc, cur, items, sub, sched_ret, begun, finished,
              stop_event>>
lifeVars == <<bridgeVars, openVars, dev, bb_connected, pending, leaked, attempts,
              outcome, err, calls, prev_failed, ok_seen, rl_busy, auditVars>>

codecVars == <<wire, frame, response, s_pc, s_deadline, expected, s_out, rxbuf,
               decoded, fw_info>>

vars == <<chanVars, bridgeVars, delegateVars, openVars, envVars, histVars, ioVars,
          rl_busy, auditVars, wr, rd, execVars, codecVars>>

(***************************************************************************)
(* Bounds and program constants                                            *)
(***************************************************************************)
\* range(1, 31): the brute-force range ends at channel 30
LastChannel == 30
\* most SDP service records a device exposes in the model
MaxServices == 3

\* kIOReturnSuccess
kIOReturnSuccess == 0

\* channel ids an SDP record or the user may name: in range, its two ends,
\* and one on each side outside the legal range
ChannelInputs == {0, 1, 3, 7, LastChannel, LastChannel + 1}

\* a service record: getRFCOMMChannelID_ answers (res, ch_id)
ServiceRecords ==
    {[res |-> kIOReturnSuccess, ch |-> c] : c \in ChannelInputs}
        \cup {[res |-> 1, ch |-> 0]}

SeqsUpTo(S, n) == UNION {[1..k -> S] : k \in 0..n}

(***************************************************************************)
(* Candidate list: _perform_sdp_query and the channels_to_try loop         *)
(***************************************************************************)
InList(x, l) == \E i \in 1..Len(l) : l[i] = x

\* for svc in services: if res == 0: discovered.append((ch_id, svc_name))
RECURSIVE PerformSdpQuery(_)
PerformSdpQuery(svcs) ==
    IF svcs = <<>> THEN <<>>
    ELSE LET svc == Head(svcs)
             rest == PerformSdpQuery(Tail(svcs))
         IN  IF svc.res = kIOReturnSuccess THEN <<svc.ch>> \o rest ELSE rest

\* for ch in range(1, 31): if ch not in channels_to_try: append(ch)
RECURSIVE AppendRange(_, _)
AppendRange(l, ch) ==
    IF ch > LastChannel THEN l
    ELSE AppendRange(IF ~InList(ch, l) THEN Append(l, ch) ELSE l, ch + 1)

\* if self._channel_id not in channels_to_try: append(self._channel_id)
AppendUser(l, chid) == IF ~InList(chid, l) THEN Append(l, chid) ELSE l

\* a build that puts the user's channel in front of the SDP channels
ChannelsToTryUserFirst(sdp, chid) ==
    AppendRange(<<chid>> \o SelectSeq(sdp, LAMBDA c : c # chid), 1)

\* channels_to_try as open() builds it from sdp_channels and _channel_id
ChannelsToTry(sdp, chid) == AppendRange(AppendUser(sdp, chid), 1)

(***************************************************************************)
(* The environment of open(): what the native stack answers               *)
(***************************************************************************)
\* _try_open_rfcomm: "return -1" when the scheduled open raised or timed out
OpenException == -1

\* a non-zero IOReturn status of the native stack
IOErrors == {5}

\* API calls (open, close) one behaviour makes
MaxCalls == 2

\* the open-complete callback of an attempt whose native call returned 0:
\* none at all, one within the caller's wait, or one after that wait timed out
Callbacks == {"none", "ok", "err", "late_ok", "late_err"}

\* how the device answers the two sub-modes of an open of one channel; the
\* asynchronous answer is only ever asked for when the synchronous call failed
Behaviours ==
    {[sync |-> kIOReturnSuccess, scb |-> c, async |-> OpenException, acb |-> "none"] :
        c \in Callbacks}
    \cup {[sync |-> s, scb |-> "none", async |-> a, acb |-> "none"] :
            s \in IOErrors \cup {OpenException}, a \in IOErrors \cup {OpenException}}
    \cup {[sync |-> s, scb |-> "none", async |-> kIOReturnSuccess, acb |-> c] :
            s \in IOErrors \cup {OpenException}, c \in Callbacks}

\* the channels whose behaviour is drawn freely; every other channel answers
\* with the device's default behaviour
SpecialChannels == {3, 7}

\* a default channel never opens: both calls fail, or the asynchronous call
\* is answered by no callback or by a failure status
DefaultBehaviours ==
    {b \in Behaviours :
        \/ b.sync \in IOErrors /\ b.async \in IOErrors
        \/ b.sync = OpenException /\ b.async = kIOReturnSuccess /\ b.acb = "none"
        \/ b.sync \in IOErrors /\ b.async = kIOReturnSuccess /\ b.acb = "err"}

SpecialBehaviours == {b \in Behaviours : b.sync # OpenException}

\* the channels whose callback may come after the caller's wait timed out
LateChannels == {7}

IsLate(b) == b.scb \in {"late_ok", "late_err"} \/ b.acb \in {"late_ok", "late_err"}

Devices ==
    {d \in [def : DefaultBehaviours, special : [SpecialChannels -> SpecialBehaviours]] :
        \A c \in SpecialChannels : IsLate(d.special[c]) => c \in LateChannels}

DevAt(d, ch) == IF ch \in DOMAIN d.special THEN d.special[ch] ELSE d.def

\* _channel_id as the constructor sets it
UserChannels == {1}

\* SDP answers of the device during the lifecycle
OpenServices ==
    { <<>>,
      <<[res |-> kIOReturnSuccess, ch |-> 3], [res |-> 1, ch |-> 0],
        [res |-> kIOReturnSuccess, ch |-> 7]>>,
      <<[res |-> kIOReturnSuccess, ch |-> 7], [res |-> kIOReturnSuccess, ch |-> 7]>> }

NoError == [kind |-> "none", codes |-> <<>>, has_sdp |-> FALSE, sdp |-> <<>>]

\* RFCOMMSerialBridge.is_open
is_open == b_is_open /\ delegate /\ d_is_open

\* RFCOMMSerialBridge.in_waiting
in_waiting == IF ~delegate THEN 0 ELSE Len(buffer)

(***************************************************************************)
(* Initial state: RFCOMMSerialBridge.__init__                              *)
(***************************************************************************)
NoDelegate ==
    /\ d_is_open = FALSE
    /\ open_event = FALSE
    /\ open_error = 0
    /\ closed_event = FALSE
    /\ data_event = FALSE
    /\ buffer = <<>>

BridgeInit ==
    /\ b_is_open = FALSE
    /\ channel = 0
    /\ delegate = FALSE
    /\ runloop_thread = FALSE
    /\ device = FALSE
    /\ NoDelegate
    /\ pc = "idle"
    /\ idx = 0
    /\ result = 0
    /\ bb_connected = FALSE
    /\ native_open = FALSE
    /\ pending = {}
    /\ leaked = 0
    /\ attempts = <<>>
    /\ outcome = "none"
    /\ err = NoError
    /\ calls = 0
    /\ prev_failed = FALSE
    /\ ok_seen = FALSE
    /\ closed_seen = FALSE

\* the last write(): nothing written yet
NoWrite == [out |-> "none", n |-> 0, len |-> 0, native |-> <<>>, closed |-> FALSE]

\* the last read(): nothing read yet
NoRead == [out |-> "none", owed |-> FALSE]

\* a read(size >= 1) that begins while in_waiting reports bytes owes its
\* caller a byte until it has taken one
Owes(sz) == sz >= 1 /\ in_waiting > 0

\* no API call made yet, the RunLoop thread (if any) between work items
AuditInit ==
    /\ rl_busy = FALSE
    /\ direct = {}
    /\ faults = {}
    /\ wr = NoWrite
    /\ rd = NoRead

\* the threads that call schedule_and_wait
Submitters == {1, 2}

NotSubmitting == [pc |-> "idle", item |-> 0, start |-> 0, timeout |-> 0,
                  deadline |-> 0, raises |-> FALSE]

NothingGot == [kind |-> "none", val |-> 0, item |-> 0]

\* _RunLoopThread.__init__ and the start of run(): an empty queue
ExecInit ==
    /\ work_queue = <<>>
    /\ rl_pc = "loop"
    /\ cur = 0
    /\ items = <<>>
    /\ sub = [s \in Submitters |-> NotSubmitting]
    /\ sched_ret = [s \in Submitters |-> NothingGot]
    /\ begun = <<>>
    /\ finished = <<>>
    /\ stop_event = FALSE

\* the frame codec at rest: no reply under way, nothing read or decoded
NoFrame == [command |-> -1, payload |-> <<>>]

NoExpected == [known |-> FALSE, value |-> 0, ext |-> FALSE]

\* parse_firmware_response: "return None"
NoFirmware == [found |-> FALSE, fw |-> <<>>, hw |-> <<>>, at |-> 0, ext |-> FALSE]

CodecIdle ==
    /\ wire = <<>>
    /\ frame = NoFrame
    /\ response = <<>>
    /\ s_pc = "idle"
    /\ s_deadline = 0
    /\ expected = NoExpected
    /\ s_out = "none"
    /\ rxbuf = <<>>
    /\ decoded = <<>>
    /\ fw_info = NoFirmware

\* no read() in progress, nothing received
IoInit ==
    /\ cb_pc = "idle"
    /\ rpc = "idle"
    /\ size = 0
    /\ timeout = 0
    /\ deadline = 0
    /\ r_result = <<>>
    /\ wait_until = 0
    /\ r_start = 0
    /\ now = 0
    /\ delivered = <<>>
    /\ returned = <<>>
    /\ closed_wake = "none"

Init ==
    /\ BridgeInit
    /\ IoInit
    /\ AuditInit
    /\ ExecInit
    /\ CodecIdle
    /\ services = <<>>
    /\ channel_id \in UserChannels
    /\ sdp_channels = <<>>
    /\ channels_to_try = <<>>
    /\ cpc = "input"
    /\ dev \in Devices

(***************************************************************************)
(* Helpers of the open() steps                                             *)
(***************************************************************************)
\* raise ...: the call ends with an exception
Raise(kind, codes, with_sdp) ==
    /\ outcome' = "raised"
    /\ err' = [kind |-> kind, codes |-> codes, has_sdp |-> with_sdp,
               sdp |-> IF with_sdp THEN sdp_channels ELSE <<>>]
    /\ pc' = "idle"

\* _RFCOMMDelegate.init
FreshDelegate ==
    /\ d_is_open' = FALSE
    /\ open_event' = FALSE
    /\ open_error' = 0
    /\ closed_event' = FALSE
    /\ data_event' = FALSE
    /\ buffer' = <<>>

\* one delegate kept for every attempt: nothing is left behind
AbandonedShared(ps) == ps

\* callbacks still due to the delegate that is being replaced now go to an
\* object the bridge no longer refers to
Abandoned(ps) ==
    {[p EXCEPT !.stale = TRUE, !.late = FALSE, !.armed = FALSE] : p \in ps}

\* the callback the native stack owes for an open that returned 0
Owed(cb) ==
    IF cb = "none" THEN {}
    ELSE {[status |-> IF cb \in {"ok", "late_ok"} THEN kIOReturnSuccess
                      ELSE CHOOSE e \in IOErrors : TRUE,
           late |-> cb \in {"late_ok", "late_err"},
           armed |-> FALSE, stale |-> FALSE, cur |-> TRUE,
           \* the attempt of this open() call it belongs to
           att |-> Len(attempts) + 1]}

\* a callback of an earlier open() call, whose RunLoop thread is another one
Earlier(p) == [p EXCEPT !.cur = FALSE, !.att = 0]

\* a callback that is certain to arrive within the caller's wait
DueInTime == \E p \in pending : ~p.stale /\ ~p.late

\* the caller's wait timed out: the late callbacks may arrive from now on
Armed(ps) == {IF ~p.stale /\ p.late THEN [p EXCEPT !.armed = TRUE] ELSE p : p \in ps}

SetLast(log, field, v) == [log EXCEPT ![Len(log)][field] = v]

(***************************************************************************)
(* RFCOMMSerialBridge.open, step by step                                   *)
(***************************************************************************)
\* open(): "if self._is_open: return True", else a new attempt begins
OpenCall ==
    /\ pc = "idle"
    /\ calls < MaxCalls
    /\ calls' = calls + 1
    /\ attempts' = <<>>
    /\ err' = NoError
    /\ ok_seen' = FALSE
    /\ closed_seen' = FALSE
    /\ prev_failed' = (outcome = "raised")
    \* the locals of the call
    /\ sdp_channels' = <<>>
    /\ channels_to_try' = <<>>
    /\ idx' = 0
    /\ result' = 0
    /\ IF b_is_open
         THEN outcome' = "true" /\ pc' = "idle"
         ELSE outcome' = "none" /\ pc' = "o_thread"
    /\ UNCHANGED <<ioVars, services, channel_id, cpc, bridgeVars, delegateVars,
                   envVars>>
    \* what the previous call did ends with it
    /\ direct' = {}
    /\ faults' = {}
    /\ wr' = NoWrite
    /\ UNCHANGED <<rl_busy, rd>>
    /\ UNCHANGED <<execVars, codecVars>>

\* _runloop_thread = _RunLoopThread(); start(); wait_started(5.0);
\* _delegate = _RFCOMMDelegate.alloc().init()
OpenStartThread ==
    /\ pc = "o_thread"
    /\ runloop_thread' = TRUE
    \* the thread object that was referred to so far is dropped while running
    /\ leaked' = IF runloop_thread THEN leaked + 1 ELSE leaked
    /\ \E started \in BOOLEAN :
         IF started
           THEN /\ delegate' = TRUE
                /\ FreshDelegate
                /\ native_open' = FALSE
                /\ pending' = {Earlier(p) : p \in Abandoned(pending)}
                /\ pc' = "o_device"
                /\ UNCHANGED <<outcome, err>>
           ELSE /\ Raise("RunLoopStart", <<>>, FALSE)
                /\ pending' = {Earlier(p) : p \in pending}
                /\ UNCHANGED <<delegate, delegateVars, native_open>>
    /\ UNCHANGED <<ioVars, chanVars, b_is_open, channel, device, idx, result, dev,
                   bb_connected, attempts, calls, prev_failed, ok_seen, closed_seen>>
    \* the new thread's work queue is empty and its lock free
    /\ rl_busy' = FALSE
    /\ UNCHANGED <<auditVars, wr, rd>>
    /\ UNCHANGED <<execVars, codecVars>>

\* _device = IOBluetoothDevice.withAddressString_(address); None raises
OpenFindDevice ==
    /\ pc = "o_device"
    /\ \E found \in BOOLEAN :
         /\ device' = found
         /\ IF found
              THEN pc' = "o_baseband" /\ UNCHANGED <<outcome, err>>
              ELSE Raise("DeviceNotFound", <<>>, FALSE)
    /\ UNCHANGED <<ioVars, chanVars, b_is_open, channel, delegate, runloop_thread,
                   delegateVars, idx, result, envVars, attempts, calls,
                   prev_failed, ok_seen, closed_seen>>
    /\ UNCHANGED <<rl_busy, auditVars, wr, rd>>
    /\ UNCHANGED <<execVars, codecVars>>

\* if not isConnected(): schedule_and_wait(openConnection); non-zero raises,
\* and so does the TimeoutError of schedule_and_wait
OpenBaseband ==
    /\ pc = "o_baseband"
    /\ direct' = direct \cup {"isConnected"}
    /\ IF bb_connected
         THEN pc' = "o_sdp" /\ UNCHANGED <<bb_connected, outcome, err, rl_busy>>
         ELSE /\ ~rl_busy
              /\ \/ /\ bb_connected' = TRUE
                    /\ pc' = "o_sdp"
                    /\ UNCHANGED <<outcome, err, rl_busy>>
                 \/ /\ \E e \in IOErrors : Raise("Baseband", <<e>>, FALSE)
                    /\ UNCHANGED <<bb_connected, rl_busy>>
                 \* the TimeoutError of schedule_and_wait: openConnection()
                 \* has not returned, the RunLoop thread is still inside it
                 \/ /\ Raise("BasebandTimeout", <<>>, FALSE)
                    /\ rl_busy' = TRUE
                    /\ UNCHANGED bb_connected
    /\ UNCHANGED <<ioVars, chanVars, bridgeVars, delegateVars, idx, result, dev,
                   native_open, pending, leaked, attempts, calls, prev_failed,
                   ok_seen, closed_seen>>
    /\ UNCHANGED <<faults, wr, rd>>
    /\ UNCHANGED <<execVars, codecVars>>

\* a build that skips the discovery pass
BuildWithoutDiscovery(svcs, chid) == ChannelsToTry(<<>>, chid)

\* sdp_channels = self._perform_sdp_query(); channels_to_try = [...]
BuildCandidates(svcs, chid) == ChannelsToTry(PerformSdpQuery(svcs), chid)

\* schedule_and_wait(_sdp_query) (its TimeoutError is not caught), the
\* discovery pass, the candidate list, "result = -1"
OpenDiscover ==
    /\ pc = "o_sdp"
    /\ ~rl_busy
    /\ \/ /\ Raise("SdpTimeout", <<>>, FALSE)
          /\ rl_busy' = TRUE
          /\ UNCHANGED <<services, sdp_channels, channels_to_try, result, idx,
                         direct>>
       \/ \E svcs \in OpenServices :
             \* what the device advertises now
             /\ services' = svcs
             /\ sdp_channels' = PerformSdpQuery(svcs)
             /\ channels_to_try' = BuildCandidates(svcs, channel_id)
             /\ result' = OpenException
             /\ idx' = 1
             /\ pc' = "o_sync"
             \* _perform_sdp_query reads the records on the caller's thread
             /\ direct' = direct \cup {"services"}
             /\ UNCHANGED <<outcome, err, rl_busy>>
    /\ UNCHANGED <<ioVars, channel_id, cpc, bridgeVars, delegateVars, envVars,
                   attempts, calls, prev_failed, ok_seen, closed_seen>>
    /\ UNCHANGED <<faults, wr, rd>>
    /\ UNCHANGED <<execVars, codecVars>>

(***************************************************************************)
(* The candidate loop of open()                                            *)
(***************************************************************************)
ch_id == channels_to_try[idx]

\* the for loop moves to the next candidate, or ends
NextCandidate ==
    /\ idx' = idx + 1
    /\ pc' = IF idx < Len(channels_to_try) THEN "o_sync" ELSE "o_post"

\* a loop that goes on to the next candidate where the code says "break"
BreakGoesOn == NextCandidate

\* "break": leave the for loop
Break == pc' = "o_post" /\ UNCHANGED idx

\* after the synchronous attempt: "if result == 0:" waits for the delegate,
\* anything else falls through to the asynchronous attempt
AfterSync(res) == IF res = kIOReturnSuccess THEN "o_sync_wait" ELSE "o_async"

\* _try_open_rfcomm returns -1 for an exception of the native call and for
\* the TimeoutError of schedule_and_wait; after the timeout the RunLoop thread
\* is still inside the work item
HungOrNot(res) ==
    IF res = OpenException THEN rl_busy' \in BOOLEAN ELSE UNCHANGED rl_busy

\* self._delegate = new; result = self._try_open_rfcomm(ch_id, use_async=False);
\* if result == 0: self._channel_id = ch_id
OpenSync ==
    /\ pc = "o_sync"
    /\ ~rl_busy
    /\ LET b == DevAt(dev, ch_id) IN
         /\ FreshDelegate
         /\ result' = b.sync
         /\ attempts' = Append(attempts,
                [k |-> idx, ch |-> ch_id, mode |-> "sync", res |-> b.sync,
                 conf |-> FALSE])
         /\ pc' = AfterSync(b.sync)
         /\ IF b.sync = kIOReturnSuccess
              THEN /\ channel' = ch_id
                   /\ channel_id' = ch_id
                   /\ native_open' = TRUE
                   /\ pending' = Abandoned(pending) \cup Owed(b.scb)
              ELSE /\ channel' = IF b.sync = OpenException THEN channel ELSE 0
                   /\ native_open' = FALSE
                   /\ pending' = Abandoned(pending)
                   /\ UNCHANGED channel_id
    /\ UNCHANGED <<ioVars, services, sdp_channels, channels_to_try, cpc, b_is_open,
                   delegate, runloop_thread, device, idx, dev, bb_connected,
                   leaked, outcome, err, calls, prev_failed, ok_seen, closed_seen>>
    /\ HungOrNot(DevAt(dev, ch_id).sync)
    /\ UNCHANGED <<auditVars, wr, rd>>
    /\ UNCHANGED <<execVars, codecVars>>

\* self._delegate._open_event.wait(timeout=...) returns: the event is set, or
\* the timeout passed with no callback
OpenEventWait(next) ==
    /\ open_event \/ ~DueInTime
    /\ pending' = IF open_event THEN pending ELSE Armed(pending)
    /\ pc' = next
    /\ UNCHANGED <<ioVars, chanVars, bridgeVars, delegateVars, idx, result, dev,
                   bb_connected, native_open, leaked, histVars>>
    /\ UNCHANGED <<rl_busy, auditVars, wr, rd>>
    /\ UNCHANGED <<execVars, codecVars>>

OpenSyncWait == pc = "o_sync_wait" /\ OpenEventWait("o_sync_check")

\* "if self._delegate._is_open: break", else on to the forced flag
OpenSyncCheck ==
    /\ pc = "o_sync_check"
    /\ IF d_is_open
         THEN /\ attempts' = SetLast(attempts, "conf", TRUE)
              /\ Break
         ELSE /\ pc' = "o_sync_force"
              /\ UNCHANGED <<attempts, idx>>
    /\ UNCHANGED <<ioVars, chanVars, bridgeVars, delegateVars, result, envVars, outcome,
                   err, calls, prev_failed, ok_seen, closed_seen>>
    /\ UNCHANGED <<rl_busy, auditVars, wr, rd>>
    /\ UNCHANGED <<execVars, codecVars>>

\* "self._delegate._is_open = True; break"
OpenSyncForce ==
    /\ pc = "o_sync_force"
    /\ d_is_open' = TRUE
    /\ Break
    /\ UNCHANGED <<ioVars, chanVars, bridgeVars, open_event, open_error, closed_event,
                   data_event, buffer, result, envVars, histVars>>
    /\ UNCHANGED <<rl_busy, auditVars, wr, rd>>
    /\ UNCHANGED <<execVars, codecVars>>

\* self._delegate = new; result = self._try_open_rfcomm(ch_id, use_async=True);
\* a non-zero result goes on to the next candidate
OpenAsync ==
    /\ pc = "o_async"
    /\ ~rl_busy
    /\ LET b == DevAt(dev, ch_id) IN
         /\ FreshDelegate
         /\ result' = b.async
         /\ native_open' = FALSE
         /\ attempts' = Append(attempts,
                [k |-> idx, ch |-> ch_id, mode |-> "async", res |-> b.async,
                 conf |-> FALSE])
         /\ IF b.async = kIOReturnSuccess
              THEN /\ channel' = ch_id
                   /\ pending' = Abandoned(pending) \cup Owed(b.acb)
                   /\ pc' = "o_async_wait"
                   /\ UNCHANGED idx
              ELSE /\ channel' = IF b.async = OpenException THEN channel ELSE 0
                   /\ pending' = Abandoned(pending)
                   /\ NextCandidate
    /\ UNCHANGED <<ioVars, chanVars, b_is_open, delegate, runloop_thread, device, dev,
                   bb_connected, leaked, outcome, err, calls, prev_failed,
                   ok_seen, closed_seen>>
    /\ HungOrNot(DevAt(dev, ch_id).async)
    /\ UNCHANGED <<auditVars, wr, rd>>
    /\ UNCHANGED <<execVars, codecVars>>

OpenAsyncWait == pc = "o_async_wait" /\ OpenEventWait("o_async_check")

\* if _is_open: self._channel_id = ch_id; break
\* elif _open_error is not None: result = _open_error   else: result = -1
OpenAsyncCheck ==
    /\ pc = "o_async_check"
    /\ IF d_is_open
         THEN /\ channel_id' = ch_id
              /\ attempts' = SetLast(attempts, "conf", TRUE)
              /\ Break
              /\ UNCHANGED result
         ELSE /\ result' = IF open_error # 0 THEN open_error ELSE OpenException
              /\ attempts' = SetLast(attempts, "res",
                                IF open_error # 0 THEN open_error ELSE OpenException)
              /\ NextCandidate
              /\ UNCHANGED channel_id
    /\ UNCHANGED <<ioVars, services, sdp_channels, channels_to_try, cpc, bridgeVars,
                   delegateVars, envVars, outcome, err, calls, prev_failed,
                   ok_seen, closed_seen>>
    /\ UNCHANGED <<rl_busy, auditVars, wr, rd>>
    /\ UNCHANGED <<execVars, codecVars>>

(***************************************************************************)
(* After the loop: the error of an exhausted search, the final wait        *)
(***************************************************************************)
\* "if result != 0 and not self._delegate._is_open:"
Exhausted == result # kIOReturnSuccess /\ ~d_is_open

\* raise ConnectionError("Failed to open RFCOMM channel (last error {result}) ...
\* SDP discovered channels: {sdp_channels} ..."), else _channel.setDelegate_
OpenPost ==
    /\ pc = "o_post"
    /\ IF Exhausted
         THEN Raise("NoChannel", <<result>>, TRUE)
         ELSE IF channel = 0
                \* None.setDelegate_: AttributeError
                THEN Raise("Attribute", <<>>, FALSE)
                ELSE pc' = "o_final_wait" /\ UNCHANGED <<outcome, err>>
    \* self._channel.setDelegate_(self._delegate), on the caller's thread
    /\ direct' = IF ~Exhausted /\ channel # 0 THEN direct \cup {"setDelegate"}
                 ELSE direct
    /\ UNCHANGED <<ioVars, chanVars, bridgeVars, delegateVars, idx, result, envVars,
                   attempts, calls, prev_failed, ok_seen, closed_seen>>
    /\ UNCHANGED <<rl_busy, faults, wr, rd>>
    /\ UNCHANGED <<execVars, codecVars>>

\* "if not self._delegate._open_event.wait(timeout=connect_timeout): raise"
OpenFinalWait ==
    /\ pc = "o_final_wait"
    /\ \/ /\ open_event
          /\ pc' = "o_final_check"
          /\ UNCHANGED <<outcome, err, pending>>
       \/ /\ ~open_event
          /\ ~DueInTime
          /\ pending' = Armed(pending)
          /\ Raise("OpenTimeout", <<>>, FALSE)
    /\ UNCHANGED <<ioVars, chanVars, bridgeVars, delegateVars, idx, result, dev,
                   bb_connected, native_open, leaked, attempts, calls,
                   prev_failed, ok_seen, closed_seen>>
    /\ UNCHANGED <<rl_busy, auditVars, wr, rd>>
    /\ UNCHANGED <<execVars, codecVars>>

\* "if self._delegate._open_error is not None: raise", else
\* "self._is_open = True; return True"
OpenFinalCheck ==
    /\ pc = "o_final_check"
    /\ IF open_error # 0
         THEN Raise("OpenError", <<open_error>>, FALSE) /\ UNCHANGED b_is_open
         ELSE /\ b_is_open' = TRUE
              /\ outcome' = "true"
              /\ pc' = "idle"
              /\ UNCHANGED err
    /\ UNCHANGED <<ioVars, chanVars, channel, delegate, runloop_thread, device,
                   delegateVars, idx, result, envVars, attempts, calls,
                   prev_failed, ok_seen, closed_seen>>
    /\ UNCHANGED <<rl_busy, auditVars, wr, rd>>
    /\ UNCHANGED <<execVars, codecVars>>

(***************************************************************************)
(* Delegate callbacks, run on a RunLoop thread                             *)
(***************************************************************************)
\* a handler that records every completion as a success
OpenCompleteAlwaysOpen(status) ==
    /\ d_is_open' = TRUE
    /\ open_event' = TRUE
    /\ UNCHANGED open_error

\* rfcommChannelOpenComplete_status_ on the bridge's current delegate
OpenComplete(status) ==
    /\ IF status = kIOReturnSuccess
         THEN d_is_open' = TRUE /\ UNCHANGED open_error
         ELSE open_error' = status /\ UNCHANGED d_is_open
    /\ open_event' = TRUE

\* the native stack delivers an open-complete callback: to the current
\* delegate, or to the delegate of an attempt that was given up
DeliverOpenComplete ==
    \* callbacks are dispatched by the run loop, between work items
    /\ ~rl_busy
    /\ \E p \in pending :
         /\ ~p.late \/ p.armed
         /\ pending' = pending \ {p}
         /\ IF ~p.stale /\ delegate
              THEN /\ OpenComplete(p.status)
                   /\ ok_seen' = (ok_seen \/ p.status = kIOReturnSuccess)
                   /\ native_open' = (native_open \/ p.status = kIOReturnSuccess)
              ELSE UNCHANGED <<d_is_open, open_error, open_event, ok_seen, native_open>>
    /\ UNCHANGED <<ioVars, chanVars, bridgeVars, closed_event, data_event, buffer,
                   openVars, dev, bb_connected, leaked, attempts, outcome, err,
                   calls, prev_failed, closed_seen>>
    /\ UNCHANGED <<rl_busy, auditVars, wr, rd>>
    /\ UNCHANGED <<execVars, codecVars>>

\* rfcommChannelClosed_: the remote end (or the stack) closed the channel
ChannelClosed ==
    /\ delegate
    /\ native_open
    /\ ~rl_busy
    \* the stack reports a channel's closure after its open completion
    /\ ~\E p \in pending : ~p.stale
    /\ cb_pc = "idle"
    /\ native_open' = FALSE
    /\ d_is_open' = FALSE
    /\ closed_event' = TRUE
    /\ data_event' = TRUE      \* "Wake up any blocking reads"
    /\ closed_seen' = TRUE
    /\ closed_wake' = IF rpc = "wait" /\ ~data_event THEN "pending" ELSE closed_wake
    /\ UNCHANGED <<chanVars, lifeVars, open_event, open_error, buffer, cb_pc,
                   readVars, now, delivered, returned>>
    /\ UNCHANGED <<wr, rd>>
    /\ UNCHANGED <<execVars, codecVars>>

(***************************************************************************)
(* RFCOMMSerialBridge.close                                                *)
(***************************************************************************)
\* the native calls close() makes, given which of them raise
TeardownCalls(status_failed) ==
    (IF channel # 0 THEN {"closeChannel"} ELSE {})
        \cup (IF device THEN {"isConnected"} ELSE {})
        \cup (IF device /\ ~status_failed /\ bb_connected THEN {"closeConnection"}
              ELSE {})

\* close(): closeChannel and closeConnection run inside try/except, the
\* isConnected() query between them does not; chan_raises, status_raises,
\* conn_raises: the native call raises. No lock is taken: another thread
\* may be inside read() or write()
Close ==
    /\ pc = "idle"
    /\ calls < MaxCalls
    /\ calls' = calls + 1
    /\ attempts' = <<>>
    /\ prev_failed' = FALSE
    /\ ok_seen' = FALSE
    /\ closed_seen' = FALSE
    /\ channel' = 0
    /\ native_open' = FALSE
    \* a write() another thread is inside goes on
    /\ wr' = IF wr.out = "begun" THEN wr ELSE NoWrite
    /\ UNCHANGED rd
    /\ \E chan_raises, status_raises, conn_raises \in BOOLEAN :
         LET made == TeardownCalls(status_raises)
             failed == {c \in made : \/ (c = "closeChannel" /\ chan_raises)
                                    \/ (c = "isConnected" /\ status_raises)
                                    \/ (c = "closeConnection" /\ conn_raises)}
         IN
         /\ faults' = failed
         \* every one of them is called by the thread that called close()
         /\ direct' = IF runloop_thread THEN made ELSE {}
         /\ IF "isConnected" \in failed
           THEN /\ outcome' = "close_raised"
                /\ err' = [NoError EXCEPT !.kind = "Native"]
                /\ UNCHANGED <<b_is_open, delegate, runloop_thread, device,
                               delegateVars, bb_connected, pending, cb_pc, rl_busy>>
           ELSE /\ outcome' = "closed"
                /\ err' = NoError
                /\ device' = (device /\ ~bb_connected)
                /\ bb_connected' = IF device /\ "closeConnection" \notin failed
                                     THEN FALSE ELSE bb_connected
                /\ runloop_thread' = FALSE
                \* stop(), join(timeout=3.0), and the reference is dropped
                /\ rl_busy' = FALSE
                \* a stopped RunLoop thread delivers no callback any more
                /\ pending' = IF runloop_thread THEN {q \in pending : ~q.cur}
                              ELSE pending
                /\ cb_pc' = IF runloop_thread THEN "idle" ELSE cb_pc
                /\ b_is_open' = FALSE
                /\ delegate' = FALSE
                /\ FreshDelegate
    /\ sdp_channels' = <<>>
    /\ channels_to_try' = <<>>
    /\ idx' = 0
    /\ result' = 0
    /\ UNCHANGED <<services, channel_id, cpc, pc, dev, leaked, readVars, now,
                   streamVars>>
    /\ UNCHANGED <<execVars, codecVars>>

(***************************************************************************)
(* _RFCOMMDelegate: the data callback and read_bytes                       *)
(***************************************************************************)
\* bytes one callback may carry, and the bytes received in one behaviour
ByteValues == {0, 1}
MaxPayload == 2
MaxBytes == 3

Payloads == UNION {[1..k -> ByteValues] : k \in 1..MaxPayload}

Min(a, b) == IF a < b THEN a ELSE b

\* self._buffer.extend(raw_bytes)
Extend(buf, raw) == buf \o raw

\* rfcommChannelData_data_length_, first half: "with self._buffer_lock:
\* self._buffer.extend(raw_bytes)"
DataExtend ==
    /\ delegate
    /\ native_open
    /\ cb_pc = "idle"
    /\ \E raw \in Payloads :
         /\ Len(delivered) + Len(raw) <= MaxBytes
         /\ buffer' = Extend(buffer, raw)
         /\ delivered' = delivered \o raw
    /\ cb_pc' = "set_event"
    /\ UNCHANGED <<chanVars, lifeVars, native_open, closed_seen, d_is_open,
                   open_event, open_error, closed_event, data_event, readVars,
                   now, returned, closed_wake>>
    /\ UNCHANGED <<wr, rd>>
    /\ UNCHANGED <<execVars, codecVars>>

\* rfcommChannelData_data_length_, second half: "self._data_event.set()"
DataSetEvent ==
    /\ cb_pc = "set_event"
    /\ data_event' = TRUE
    /\ cb_pc' = "idle"
    /\ UNCHANGED <<chanVars, lifeVars, native_open, closed_seen, d_is_open,
                   open_event, open_error, closed_event, buffer, readVars, now,
                   streamVars>>
    /\ UNCHANGED <<wr, rd>>
    /\ UNCHANGED <<execVars, codecVars>>

\* a read_bytes that takes the newest bytes: pop() instead of popleft()
ReadBytesNewest(buf, count) ==
    LET available == Min(count, Len(buf)) IN
    [out |-> [i \in 1..available |-> buf[Len(buf) + 1 - i]],
     rest |-> SubSeq(buf, 1, Len(buf) - available)]

\* read_bytes(count): available = min(count, len(buffer)); popleft() that many
read_bytes(buf, count) ==
    LET available == Min(count, Len(buf)) IN
    [out |-> SubSeq(buf, 1, available),
     rest |-> SubSeq(buf, available + 1, Len(buf))]


(***************************************************************************)
(* RFCOMMSerialBridge.read, step by step                                   *)
(***************************************************************************)
\* the reader's _data_event.wait(0.1): the slice; one time unit is 0.1 s
WaitSlice == 1
\* largest read timeout, largest read size, and the end of the clock
MaxTimeout == 2
MaxSize == 2
MaxTime == 3

\* _timeout: None (-1 here) or a number of time units
Timeouts == {-1} \cup 0..MaxTimeout
IsNone(t) == t < 0

\* a deadline test that gives up one time unit early
ExpiredEarly(dl, t) == dl - t <= 1

\* "remaining = deadline - time.monotonic(); if remaining <= 0: break"
Expired(dl, t) == dl - t <= 0

\* "while len(result) < size:"
LoopCondition(res, sz) == Len(res) < sz

\* read(size): "if not self.is_open: return b''", else
\* "deadline = time.monotonic() + (self._timeout or 0); result = bytearray()"
ReadCall ==
    /\ rpc = "idle"
    /\ wr.out # "begun"
    /\ cb_pc \in {"idle", "set_event"}
    /\ r_result' = <<>>
    /\ closed_wake' = "none"
    /\ \E sz \in 0..MaxSize :
         IF ~is_open
           \* b"" at once: nothing of the call is left
           THEN /\ rd' = [out |-> "bytes", owed |-> Owes(sz)]
                /\ UNCHANGED <<rpc, size, timeout, r_start, deadline>>
           ELSE \E t \in Timeouts :
                /\ rd' = [out |-> "running", owed |-> Owes(sz)]
                /\ size' = sz
                /\ timeout' = t
                /\ r_start' = now
                /\ deadline' = now + (IF IsNone(t) THEN 0 ELSE t)
                /\ rpc' = IF LoopCondition(<<>>, sz) THEN "loop" ELSE "return"
    /\ UNCHANGED <<chanVars, lifeVars, native_open, closed_seen, delegateVars,
                   cb_pc, wait_until, now, delivered, returned>>
    /\ wr' = NoWrite
    /\ UNCHANGED <<execVars, codecVars>>

\* a read_bytes that clears the event whenever it took bytes
ClearsEventAlways(rest) == TRUE

\* read_bytes: "if not self._buffer: self._data_event.clear()"
ClearsEvent(rest) == rest = <<>>

\* "self._delegate" is None, close() having run meanwhile: the attribute
\* access raises AttributeError and read() ends with it
ReadRaises ==
    /\ rd' = [rd EXCEPT !.out = "AttributeError"]
    /\ rpc' = "idle"
    /\ r_result' = <<>>
    /\ size' = 0
    /\ timeout' = 0
    /\ deadline' = 0
    /\ wait_until' = 0
    /\ r_start' = 0

\* available = self._delegate.read_bytes(size - len(result)); read_bytes
\* clears _data_event when it empties the buffer; "if available:
\* result.extend(available); if len(result) >= size: break"
ReadBytes ==
    /\ rpc = "loop"
    /\ IF ~delegate
         THEN ReadRaises /\ UNCHANGED <<buffer, data_event>>
         ELSE LET got == read_bytes(buffer, size - Len(r_result)) IN
                /\ buffer' = got.rest
                /\ data_event' = IF got.out # <<>> /\ ClearsEvent(got.rest)
                                   THEN FALSE ELSE data_event
                /\ r_result' = r_result \o got.out
                /\ rpc' = IF got.out # <<>> /\ Len(r_result \o got.out) >= size
                            THEN "return" ELSE "check"
                /\ rd' = IF got.out # <<>> THEN [rd EXCEPT !.owed = FALSE] ELSE rd
                /\ UNCHANGED <<size, timeout, deadline, wait_until, r_start>>
    /\ UNCHANGED <<chanVars, lifeVars, native_open, closed_seen, d_is_open,
                   open_event, open_error, closed_event, cb_pc, now, streamVars>>
    /\ UNCHANGED wr
    /\ UNCHANGED <<execVars, codecVars>>

\* the two deadline tests before the wait, and the wait's own timeout:
\* None waits a slice; else "if remaining <= 0: break" and
\* "wait(min(0.1, remaining))"
ReadCheck ==
    /\ rpc = "check"
    /\ IF ~IsNone(timeout) /\ Expired(deadline, now)
         THEN /\ rpc' = "return"
              /\ UNCHANGED <<wait_until, size, timeout, deadline, r_result,
                             r_start, rd>>
         \* "self._delegate._data_event.wait(...)"
         ELSE IF ~delegate
                THEN ReadRaises
                ELSE /\ wait_until' = now + (IF IsNone(timeout) THEN WaitSlice
                                             ELSE Min(WaitSlice, deadline - now))
                     /\ rpc' = "wait"
                     /\ UNCHANGED <<size, timeout, deadline, r_result, r_start,
                                    rd>>
    /\ UNCHANGED <<chanVars, lifeVars, native_open, closed_seen, delegateVars,
                   cb_pc, now, streamVars>>
    /\ UNCHANGED wr
    /\ UNCHANGED <<execVars, codecVars>>

\* self._delegate._data_event.wait(...) returns: the event is set, or the
\* wait timed out; back to the loop test
ReadWait ==
    /\ rpc = "wait"
    /\ data_event \/ now >= wait_until
    /\ rpc' = IF LoopCondition(r_result, size) THEN "loop" ELSE "return"
    /\ closed_wake' = IF closed_wake = "pending" THEN "woken" ELSE closed_wake
    /\ UNCHANGED <<chanVars, lifeVars, native_open, closed_seen, delegateVars,
                   cb_pc, size, timeout, deadline, r_result, wait_until, r_start,
                   now, delivered, returned>>
    /\ UNCHANGED <<wr, rd>>
    /\ UNCHANGED <<execVars, codecVars>>

\* "return bytes(result)"
ReadReturn ==
    /\ rpc = "return"
    /\ rpc' = "idle"
    /\ returned' = returned \o r_result
    \* the locals of the call end with it
    /\ r_result' = <<>>
    /\ size' = 0
    /\ timeout' = 0
    /\ deadline' = 0
    /\ wait_until' = 0
    /\ r_start' = 0
    /\ closed_wake' = "none"
    /\ rd' = [rd EXCEPT !.out = "bytes"]
    /\ UNCHANGED <<chanVars, lifeVars, native_open, closed_seen, delegateVars,
                   cb_pc, now, delivered>>
    /\ UNCHANGED wr
    /\ UNCHANGED <<execVars, codecVars>>

\* time.monotonic() advances
Tick ==
    /\ now < MaxTime
    /\ now' = now + 1
    /\ UNCHANGED <<chanVars, lifeVars, native_open, closed_seen, delegateVars,
                   cb_pc, readVars, streamVars>>
    /\ UNCHANGED <<wr, rd>>
    /\ UNCHANGED <<execVars, codecVars>>

(***************************************************************************)
(* RFCOMMSerialBridge.write                                                *)
(***************************************************************************)
\* longest data written
MaxWrite == 1

\* the fallback writeData_ raised instead of returning a status
WriteRaised == -2

\* what the two native writes may answer
WriteSyncResults == {kIOReturnSuccess} \cup IOErrors
WriteDataResults == {kIOReturnSuccess, WriteRaised} \cup IOErrors

\* a write that reports success whatever the fallback answered
WriteTrustsFallback(open, ch, len, r1, r2, closed) ==
    IF ~open \/ ch = 0
      THEN [out |-> "IOError", n |-> 0, len |-> len, native |-> <<>>,
            closed |-> closed]
      ELSE [out |-> "returned", n |-> len, len |-> len,
            native |-> IF r1 = kIOReturnSuccess THEN <<r1>> ELSE <<r1, r2>>,
            closed |-> closed]

\* write(data): IOError when not open; writeSync_length_, and on a non-zero
\* result writeData_; IOError when that fails or raises; else len(data)
write(open, ch, len, r1, r2, closed) ==
    IF ~open \/ ch = 0
      THEN [out |-> "IOError", n |-> 0, len |-> len, native |-> <<>>,
            closed |-> closed]
    ELSE IF r1 = kIOReturnSuccess
      THEN [out |-> "returned", n |-> len, len |-> len, native |-> <<r1>>,
            closed |-> closed]
    ELSE IF r2 = kIOReturnSuccess
      THEN [out |-> "returned", n |-> len, len |-> len, native |-> <<r1, r2>>,
            closed |-> closed]
      ELSE [out |-> "IOError", n |-> 0, len |-> len, native |-> <<r1, r2>>,
            closed |-> closed]

\* one call of write(), by the thread that makes the bridge's API calls;
\* "closed" records that the channel-closed callback came before the call
Write ==
    /\ pc = "idle"
    /\ rpc = "idle"
    /\ \E len \in 0..MaxWrite, r1 \in WriteSyncResults, r2 \in WriteDataResults :
         /\ wr' = write(is_open, channel, len, r1, r2, delegate /\ closed_event)
         \* both native writes are called by the thread that called write()
         /\ direct' = IF wr'.native # <<>> /\ runloop_thread THEN {"write"} ELSE {}
    /\ UNCHANGED <<chanVars, bridgeVars, delegateVars, openVars, envVars, histVars,
                   ioVars, rl_busy, faults, rd>>
    /\ UNCHANGED <<execVars, codecVars>>

(***************************************************************************)
(* The native call inside a work item whose submitter timed out returns    *)
(***************************************************************************)
NativeReturns ==
    /\ rl_busy
    /\ rl_busy' = FALSE
    /\ UNCHANGED <<chanVars, bridgeVars, delegateVars, openVars, envVars, histVars,
                   ioVars, auditVars, wr, rd>>
    /\ UNCHANGED <<execVars, codecVars>>

\* the Python type of the exception open() raised: the ConnectionError that
\* open() raises itself, the TimeoutError of schedule_and_wait, or the
\* AttributeError of None.setDelegate_
ExceptionType(kind) ==
    IF kind \in {"RunLoopStart", "DeviceNotFound", "Baseband", "NoChannel",
                 "OpenTimeout", "OpenError"} THEN "ConnectionError"
    ELSE IF kind \in {"BasebandTimeout", "SdpTimeout"} THEN "TimeoutError"
    ELSE IF kind = "Attribute" THEN "AttributeError"
    ELSE "none"

(***************************************************************************)
(* Spec: the lifecycle of one bridge (open, close, callbacks)              *)
(***************************************************************************)
Next ==
    \/ OpenCall
    \/ OpenStartThread
    \/ OpenFindDevice
    \/ OpenBaseband
    \/ OpenDiscover
    \/ OpenSync
    \/ OpenSyncWait
    \/ OpenSyncCheck
    \/ OpenSyncForce
    \/ OpenAsync
    \/ OpenAsyncWait
    \/ OpenAsyncCheck
    \/ OpenPost
    \/ OpenFinalWait
    \/ OpenFinalCheck
    \/ DeliverOpenComplete
    \/ ChannelClosed
    \/ Close
    \/ Write
    \/ NativeReturns

Spec == Init /\ [][Next]_vars

\* the steps of the thread that is inside open()
OpenStep ==
    \/ OpenStartThread
    \/ OpenFindDevice
    \/ OpenBaseband
    \/ OpenDiscover
    \/ OpenSync
    \/ OpenSyncWait
    \/ OpenSyncCheck
    \/ OpenSyncForce
    \/ OpenAsync
    \/ OpenAsyncWait
    \/ OpenAsyncCheck
    \/ OpenPost
    \/ OpenFinalWait
    \/ OpenFinalCheck

\* devices whose channels, but for the two advertised ones, answer an open
\* with nothing: the synchronous call does not return in time, the
\* asynchronous one is followed by no callback
LiveDevices ==
    {d \in Devices :
        /\ d.def.sync = OpenException
        /\ d.special[3].sync = kIOReturnSuccess /\ d.special[3].scb = "ok"
        /\ ~IsLate(d.special[7])}

InitLive ==
    /\ BridgeInit
    /\ IoInit
    /\ AuditInit
    /\ ExecInit
    /\ CodecIdle
    /\ services = <<>>
    /\ channel_id \in UserChannels
    /\ sdp_channels = <<>>
    /\ channels_to_try = <<>>
    /\ cpc = "input"
    /\ dev \in LiveDevices

\* the lifecycle with its threads scheduled: the caller of open() takes its
\* next step whenever it can, and the run loop delivers the callbacks that
\* are due; nothing makes a native call return
SpecLive ==
    /\ InitLive
    /\ [][Next]_vars
    /\ WF_vars(OpenStep)
    /\ WF_vars(DeliverOpenComplete)

(***************************************************************************)
(* SpecLast: the lifecycle on devices whose only channel that answers is   *)
(* the last candidate of the search, channel 30, in time or late           *)
(***************************************************************************)
LastDevices == [def : DefaultBehaviours, special : [{LastChannel} -> SpecialBehaviours]]

InitLast ==
    /\ BridgeInit
    /\ IoInit
    /\ AuditInit
    /\ ExecInit
    /\ CodecIdle
    /\ services = <<>>
    /\ channel_id \in UserChannels
    /\ sdp_channels = <<>>
    /\ channels_to_try = <<>>
    /\ cpc = "input"
    /\ dev \in LastDevices

SpecLast == InitLast /\ [][Next]_vars

(***************************************************************************)
(* SpecIO: one open connection, its data and closed callbacks, one reader  *)
(***************************************************************************)
\* the state open() leaves when it returns True
InitIO ==
    /\ IoInit
    /\ AuditInit
    /\ ExecInit
    /\ CodecIdle
    /\ services = <<>>
    /\ channel_id = 1
    /\ sdp_channels = <<>>
    /\ channels_to_try = ChannelsToTry(<<>>, 1)
    /\ cpc = "input"
    /\ b_is_open = TRUE
    /\ channel = 1
    /\ delegate = TRUE
    /\ runloop_thread = TRUE
    /\ device = TRUE
    /\ d_is_open = TRUE
    /\ open_event = TRUE
    /\ open_error = 0
    /\ closed_event = FALSE
    /\ data_event = FALSE
    /\ buffer = <<>>
    /\ pc = "idle"
    /\ idx = 1
    /\ result = kIOReturnSuccess
    /\ dev \in [def : {CHOOSE b \in DefaultBehaviours : TRUE},
                special : [SpecialChannels ->
                    {[sync |-> kIOReturnSuccess, scb |-> "ok",
                      async |-> OpenException, acb |-> "none"]}]]
    /\ bb_connected = TRUE
    /\ native_open = TRUE
    /\ pending = {}
    /\ leaked = 0
    /\ attempts = <<[k |-> 1, ch |-> 1, mode |-> "sync", res |-> kIOReturnSuccess,
                     conf |-> TRUE]>>
    /\ outcome = "true"
    /\ err = NoError
    /\ calls = 1
    /\ prev_failed = FALSE
    /\ ok_seen = TRUE
    /\ closed_seen = FALSE

NextIO ==
    \/ DataExtend
    \/ DataSetEvent
    \/ ChannelClosed
    \/ ReadCall
    \/ ReadBytes
    \/ ReadCheck
    \/ ReadWait
    \/ ReadReturn
    \/ Tick
    \/ Write

SpecIO == InitIO /\ [][NextIO]_vars

(***************************************************************************)
(* SpecShut: one open connection whose client thread reads and writes      *)
(* while another thread calls close()                                      *)
(***************************************************************************)
\* write(data), first half: "if not self.is_open or self._channel is None:
\* raise IOError"; else the native write comes next
WriteBegin ==
    /\ pc = "idle"
    /\ rpc = "idle"
    /\ wr.out # "begun"
    /\ \E len \in 0..MaxWrite :
         wr' = IF ~is_open \/ channel = 0
                 THEN write(FALSE, channel, len, kIOReturnSuccess, kIOReturnSuccess,
                            delegate /\ closed_event)
                 ELSE [out |-> "begun", n |-> 0, len |-> len, native |-> <<>>,
                       closed |-> delegate /\ closed_event]
    /\ direct' = {}
    /\ UNCHANGED <<chanVars, bridgeVars, delegateVars, openVars, envVars, histVars,
                   ioVars, rl_busy, faults, rd>>
    /\ UNCHANGED <<execVars, codecVars>>

\* write(data), second half: "self._channel.writeSync_length_(...)" and what
\* follows it; "self._channel" is None when close() has run meanwhile, and
\* the attribute access raises AttributeError
WriteNative ==
    /\ wr.out = "begun"
    /\ IF channel = 0
         THEN wr' = [wr EXCEPT !.out = "AttributeError"] /\ UNCHANGED direct
         ELSE \E r1 \in WriteSyncResults, r2 \in WriteDataResults :
                /\ wr' = write(TRUE, channel, wr.len, r1, r2, wr.closed)
                /\ direct' = IF runloop_thread THEN {"write"} ELSE {}
    /\ UNCHANGED <<chanVars, bridgeVars, delegateVars, openVars, envVars, histVars,
                   ioVars, rl_busy, faults, rd>>
    /\ UNCHANGED <<execVars, codecVars>>

\* _RFCOMMDelegate.clear_buffer, from any thread: "with self._buffer_lock:
\* self._buffer.clear(); self._data_event.clear()"
ClearBuffer ==
    /\ delegate
    /\ buffer' = <<>>
    /\ data_event' = FALSE
    /\ UNCHANGED <<chanVars, lifeVars, native_open, closed_seen, d_is_open,
                   open_event, open_error, closed_event, cb_pc, readVars, now,
                   streamVars>>
    /\ UNCHANGED <<wr, rd>>
    /\ UNCHANGED <<execVars, codecVars>>

NextShut ==
    \/ DataExtend
    \/ DataSetEvent
    \/ ReadCall
    \/ ReadBytes
    \/ ReadCheck
    \/ ReadWait
    \/ ReadReturn
    \/ Tick
    \/ WriteBegin
    \/ WriteNative
    \/ Close

SpecShut == InitIO /\ [][NextShut]_vars

(***************************************************************************)
(* SpecBuf: the receive buffer of one open connection and its event, with  *)
(* the data callback, one reader, and a thread that calls clear_buffer().  *)
(* The clock stands still: a wait of the reader ends when its event is     *)
(* set, and a read_bytes at any other moment is that of a new read().      *)
(***************************************************************************)
NextBuf ==
    \/ DataExtend
    \/ DataSetEvent
    \/ ChannelClosed
    \/ ReadCall
    \/ ReadBytes
    \/ ReadCheck
    \/ ReadWait
    \/ ReadReturn
    \/ ClearBuffer

SpecBuf == InitIO /\ [][NextBuf]_vars

(***************************************************************************)
(* SpecChan: the list construction applied to every bounded input          *)
(***************************************************************************)
InitChan ==
    /\ BridgeInit
    /\ IoInit
    /\ AuditInit
    /\ ExecInit
    /\ CodecIdle
    /\ dev \in [def : {CHOOSE b \in DefaultBehaviours : TRUE},
                special : [SpecialChannels -> {CHOOSE b \in DefaultBehaviours : TRUE}]]
    /\ services \in SeqsUpTo(ServiceRecords, MaxServices)
    /\ channel_id \in ChannelInputs
    /\ sdp_channels = <<>>
    /\ channels_to_try = <<>>
    /\ cpc = "input"

BuildChannelList ==
    /\ cpc = "input"
    /\ sdp_channels' = PerformSdpQuery(services)
    /\ channels_to_try' = ChannelsToTry(PerformSdpQuery(services), channel_id)
    /\ cpc' = "built"
    /\ UNCHANGED <<services, channel_id, bridgeVars, delegateVars, openVars,
                   envVars, histVars, ioVars>>
    /\ UNCHANGED <<rl_busy, auditVars, wr, rd>>
    /\ UNCHANGED <<execVars, codecVars>>

NextChan == BuildChannelList

SpecChan == InitChan /\ [][NextChan]_vars

(***************************************************************************)
(* _RunLoopThread: run() drains the work queue under _work_lock, and       *)
(* schedule_and_wait submits to it                                         *)
(***************************************************************************)
\* work items submitted in one behaviour
MaxItems == 3

\* the timeout argument of schedule_and_wait, in time units
SchedTimeouts == 1..MaxTimeout

\* everything of the bridge, which the executor's steps leave alone
bridgeAll == <<chanVars, bridgeVars, delegateVars, openVars, envVars, histVars,
               cb_pc, readVars, streamVars, auditVars, wr, rd>>

\* what func() of item id returns, and the exception it raises
ResultOf(id) == id
ErrorOf(id) == id

Submitting(s) == sub[s].pc # "idle"

\* schedule_and_wait(func, timeout) is called: result_holder and done_event
\* are made, next comes "with self._work_lock:"
SchedCall(s) ==
    /\ sub[s].pc = "idle"
    /\ Len(items) + Cardinality({u \in Submitters : sub[u].pc = "lock"}) < MaxItems
    /\ \E tmo \in SchedTimeouts, r \in BOOLEAN :
         sub' = [sub EXCEPT ![s] = [pc |-> "lock", item |-> 0, start |-> now,
                                    timeout |-> tmo, deadline |-> 0, raises |-> r]]
    /\ sched_ret' = [sched_ret EXCEPT ![s] = NothingGot]
    /\ UNCHANGED <<bridgeAll, codecVars, stop_event, now, rl_busy, work_queue, rl_pc,
                   cur, items, begun, finished>>

\* "with self._work_lock: self._work_queue.append(...)": needs the lock,
\* which run() holds while it drains the queue; then done_event.wait(timeout)
\* begins
SchedEnqueue(s) ==
    /\ sub[s].pc = "lock"
    /\ ~rl_busy
    /\ LET id == Len(items) + 1 IN
         /\ items' = Append(items, [by |-> s, raises |-> sub[s].raises, result |-> 0,
                                    error |-> 0, done |-> 0])
         /\ work_queue' = Append(work_queue, id)
         /\ sub' = [sub EXCEPT ![s].pc = "wait", ![s].item = id,
                                ![s].deadline = now + sub[s].timeout]
    /\ UNCHANGED <<bridgeAll, codecVars, stop_event, now, rl_busy, rl_pc, cur,
                   sched_ret, begun, finished>>

\* a completion that hands the result over whatever the error slot holds
CompletionIgnoresError(it, id) == [kind |-> "result", val |-> it.result, item |-> id]

\* "if result_holder['error'] is not None: raise it", else return the result
Completion(it, id) ==
    IF it.error # 0 THEN [kind |-> "error", val |-> it.error, item |-> id]
    ELSE [kind |-> "result", val |-> it.result, item |-> id]

\* done_event.wait(timeout) returned True: the item's outcome goes to the caller
SchedReturn(s) ==
    /\ sub[s].pc = "wait"
    /\ items[sub[s].item].done > 0
    /\ sched_ret' = [sched_ret EXCEPT ![s] = Completion(items[sub[s].item], sub[s].item)]
    /\ sub' = [sub EXCEPT ![s] = NotSubmitting]
    /\ UNCHANGED <<bridgeAll, codecVars, stop_event, now, rl_busy, work_queue, rl_pc,
                   cur, items, begun, finished>>

\* done_event.wait(timeout) returned False: raise TimeoutError; the item
\* stays where it is
SchedTimeout(s) ==
    /\ sub[s].pc = "wait"
    /\ items[sub[s].item].done = 0
    /\ now >= sub[s].deadline
    /\ sched_ret' = [sched_ret EXCEPT ![s] = [kind |-> "timeout", val |-> 0,
                                              item |-> sub[s].item]]
    /\ sub' = [sub EXCEPT ![s] = NotSubmitting]
    /\ UNCHANGED <<bridgeAll, codecVars, stop_event, now, rl_busy, work_queue, rl_pc,
                   cur, items, begun, finished>>

\* a loop test that does not look at the stop event
KeepsGoingAlways(stop) == TRUE

\* "while not self._stop_event.is_set():"
KeepsGoing(stop) == ~stop

\* run(): the loop test at the top of a cycle; then "with self._work_lock:",
\* or the end of run() and of the thread
RunAcquire ==
    /\ rl_pc = "loop"
    /\ IF KeepsGoing(stop_event)
       THEN rl_busy' = TRUE /\ rl_pc' = "drain"
       ELSE rl_pc' = "exited" /\ UNCHANGED rl_busy
    /\ UNCHANGED <<bridgeAll, codecVars, stop_event, now, work_queue, cur, items, sub,
                   sched_ret, begun, finished>>

\* a drain that takes the newest item: pop() instead of popleft()
PopNewest(q) == [item |-> q[Len(q)], rest |-> SubSeq(q, 1, Len(q) - 1)]

\* a drain that takes the oldest item and throws the others away
PopClears(q) == [item |-> Head(q), rest |-> <<>>]

\* work_item = self._work_queue.popleft()
Popleft(q) == [item |-> Head(q), rest |-> Tail(q)]

\* "while self._work_queue: work_item = popleft()": func() begins
RunPop ==
    /\ rl_pc = "drain"
    /\ work_queue # <<>>
    /\ cur' = Popleft(work_queue).item
    /\ work_queue' = Popleft(work_queue).rest
    /\ begun' = Append(begun, Popleft(work_queue).item)
    /\ rl_pc' = "exec"
    /\ UNCHANGED <<bridgeAll, codecVars, stop_event, now, rl_busy, items, sub,
                   sched_ret, finished>>

\* result_holder["result"] = func(), or result_holder["error"] = e;
\* finally: done_event.set()
Executed(it, id) ==
    IF it.raises THEN [it EXCEPT !.error = ErrorOf(id), !.done = @ + 1]
    ELSE [it EXCEPT !.result = ResultOf(id), !.done = @ + 1]

\* func() of the current item returns or raises
RunFinish ==
    /\ rl_pc = "exec"
    /\ items' = [items EXCEPT ![cur] = Executed(@, cur)]
    /\ finished' = Append(finished, cur)
    /\ cur' = 0
    /\ rl_pc' = "drain"
    /\ UNCHANGED <<bridgeAll, codecVars, stop_event, now, rl_busy, work_queue, sub,
                   sched_ret, begun>>

\* the queue is empty: the lock is released, the run loop is pumped
RunRelease ==
    /\ rl_pc = "drain"
    /\ work_queue = <<>>
    /\ rl_busy' = FALSE
    /\ rl_pc' = "pump"
    /\ UNCHANGED <<bridgeAll, codecVars, stop_event, now, work_queue, cur, items, sub,
                   sched_ret, begun, finished>>

\* runMode_beforeDate_(0.05 s) returns: next cycle
RunPump ==
    /\ rl_pc = "pump"
    /\ rl_pc' = "loop"
    /\ UNCHANGED <<bridgeAll, codecVars, stop_event, now, rl_busy, work_queue, cur,
                   items, sub, sched_ret, begun, finished>>

\* a step that is due now: a thread that can take the free lock, a wait
\* whose event is set or whose timeout has passed
Due(s) ==
    \/ sub[s].pc = "lock" /\ ~rl_busy
    \/ sub[s].pc = "wait" /\ (items[sub[s].item].done > 0 \/ now >= sub[s].deadline)

\* time.monotonic() advances: inside func() or the run loop, not in the
\* queue bookkeeping, and not past a step that is due
ExecTick ==
    /\ now < MaxTime
    /\ rl_pc # "drain"
    /\ \A s \in Submitters : ~Due(s)
    /\ now' = now + 1
    /\ UNCHANGED <<bridgeAll, codecVars, rl_busy, execVars>>

InitRL ==
    /\ BridgeInit
    /\ IoInit
    /\ AuditInit
    /\ ExecInit
    /\ CodecIdle
    /\ services = <<>>
    /\ channel_id = 1
    /\ sdp_channels = <<>>
    /\ channels_to_try = <<>>
    /\ cpc = "input"
    /\ dev \in [def : {CHOOSE b \in DefaultBehaviours : TRUE},
                special : [SpecialChannels -> {CHOOSE b \in DefaultBehaviours : TRUE}]]

NextRL ==
    \/ \E s \in Submitters : SchedCall(s)
    \/ \E s \in Submitters : SchedEnqueue(s)
    \/ \E s \in Submitters : SchedReturn(s)
    \/ \E s \in Submitters : SchedTimeout(s)
    \/ RunAcquire
    \/ RunPop
    \/ RunFinish
    \/ RunRelease
    \/ RunPump
    \/ ExecTick

SpecRL == InitRL /\ [][NextRL]_vars

(***************************************************************************)
(* SpecStop: the whole life of one _RunLoopThread, from its construction   *)
(* to the end of run(), with its thread scheduled                          *)
(***************************************************************************)
\* start() was called and run() begins: "self._started_event.set()"
RunStart ==
    /\ rl_pc = "new"
    /\ rl_pc' = "loop"
    /\ UNCHANGED <<bridgeAll, codecVars, stop_event, now, rl_busy, work_queue, cur,
                   items, sub, sched_ret, begun, finished>>

\* stop(): "self._stop_event.set()", from any thread at any time
Stop ==
    /\ ~stop_event
    /\ stop_event' = TRUE
    /\ UNCHANGED <<bridgeAll, codecVars, now, rl_busy, work_queue, rl_pc, cur, items,
                   sub, sched_ret, begun, finished>>

\* _RunLoopThread.__init__: the thread is made, run() has not begun
InitStop ==
    /\ BridgeInit
    /\ IoInit
    /\ AuditInit
    /\ CodecIdle
    /\ services = <<>>
    /\ channel_id = 1
    /\ sdp_channels = <<>>
    /\ channels_to_try = <<>>
    /\ cpc = "input"
    /\ dev \in [def : {CHOOSE b \in DefaultBehaviours : TRUE},
                special : [SpecialChannels -> {CHOOSE b \in DefaultBehaviours : TRUE}]]
    /\ work_queue = <<>>
    /\ rl_pc = "new"
    /\ cur = 0
    /\ items = <<>>
    /\ sub = [s \in Submitters |-> NotSubmitting]
    /\ sched_ret = [s \in Submitters |-> NothingGot]
    /\ begun = <<>>
    /\ finished = <<>>
    /\ stop_event = FALSE

\* the steps of the RunLoop thread
RunStep ==
    \/ RunStart
    \/ RunAcquire
    \/ RunPop
    \/ RunFinish
    \/ RunRelease
    \/ RunPump

\* the one thread that uses the executor, as the bridge's caller does
Owner == {1}

NextStop ==
    \/ \E s \in Owner : SchedCall(s)
    \/ \E s \in Owner : SchedEnqueue(s)
    \/ \E s \in Owner : SchedReturn(s)
    \/ \E s \in Owner : SchedTimeout(s)
    \/ RunStart
    \/ RunAcquire
    \/ RunPop
    \/ RunFinish
    \/ RunRelease
    \/ RunPump
    \/ Stop
    \/ ExecTick

\* the RunLoop thread takes its next step whenever it has one: a work item
\* that was begun returns, and so does a slice of the run loop
SpecStop == InitStop /\ [][NextStop]_vars /\ WF_vars(RunStep)

(***************************************************************************)
(* The frame codec (src/src/bioradio_diagnose.py): send_and_read assembles *)
(* the device's reply, parse_firmware_response reads the version out of    *)
(* it.  Bytes are numbers 0..255; one time unit is 0.5 s here.             *)
(***************************************************************************)
\* SYNC_BYTE = 0xF0
SYNC_BYTE == 240

\* READ_TIMEOUT = 2.0
READ_TIMEOUT == 4

\* ser.timeout = min(0.5, remaining)
ReadSlice == 1

\* data[i] with Python's index, which starts at 0
At(data, i) == data[i + 1]

\* SYNC_BYTE in response
Has(data, b) == \E i \in 0..(Len(data) - 1) : At(data, i) = b

\* response.index(SYNC_BYTE)
Index(data, b) ==
    CHOOSE i \in 0..(Len(data) - 1) :
        At(data, i) = b /\ \A j \in 0..(i - 1) : At(data, j) # b

\* a length rule that takes the header's nibble as the length in both forms
ExpectedLengthShortOnly(resp, sync_idx) ==
    [known |-> TRUE, value |-> sync_idx + 2 + (At(resp, sync_idx + 1) % 16),
     ext |-> FALSE]

\* a length rule that forgets to count the extended-length byte itself
ExpectedLengthExtUncounted(resp, sync_idx) ==
    LET header == At(resp, sync_idx + 1)
        data_len == header % 16
    IN  IF data_len < 6
        THEN [known |-> TRUE, value |-> sync_idx + 2 + data_len, ext |-> FALSE]
        ELSE IF sync_idx + 2 < Len(resp)
             THEN [known |-> TRUE, value |-> sync_idx + 2 + At(resp, sync_idx + 2),
                   ext |-> TRUE]
             ELSE NoExpected

\* header = response[sync_idx + 1]; data_len = header & 0x0F; then
\* "if data_len < 6: expected = sync_idx + 2 + data_len", else the byte after
\* the header is the length, or "continue" when it has not arrived
ExpectedLength(resp, sync_idx) ==
    LET header == At(resp, sync_idx + 1)
        data_len == header % 16
    IN  IF data_len < 6
        THEN [known |-> TRUE, value |-> sync_idx + 2 + data_len, ext |-> FALSE]
        ELSE IF sync_idx + 2 < Len(resp)
             THEN [known |-> TRUE, value |-> sync_idx + 3 + At(resp, sync_idx + 2),
                   ext |-> TRUE]
             ELSE NoExpected

\* "if SYNC_BYTE in response and len(response) >= 3:" and what follows
CompletenessCheck(resp) ==
    IF ~(Has(resp, SYNC_BYTE) /\ Len(resp) >= 3) THEN NoExpected
    ELSE LET sync_idx == Index(resp, SYNC_BYTE) IN
         IF sync_idx + 1 < Len(resp) THEN ExpectedLength(resp, sync_idx)
         ELSE NoExpected

\* "if len(response) >= expected: break"
Complete(resp, chk) == chk.known /\ Len(resp) >= chk.value

\* send_and_read(ser, cmd, timeout=READ_TIMEOUT): ser.write(cmd) raises and
\* (None, 0.0) is returned, or the read loop begins
SendAndRead ==
    /\ s_pc = "idle"
    /\ \/ /\ s_pc' = "returned"
          /\ s_out' = "write_error"
          /\ UNCHANGED s_deadline
       \/ /\ s_pc' = "loop"
          /\ s_deadline' = now + READ_TIMEOUT
          /\ UNCHANGED s_out
    /\ UNCHANGED <<wire, frame, response, expected, rxbuf, decoded, fw_info>>
    /\ UNCHANGED <<bridgeAll, now, rl_busy, execVars>>

\* "while time.monotonic() < deadline:" with "if remaining <= 0: break"
SarLoop ==
    /\ s_pc = "loop"
    /\ IF now < s_deadline
       THEN s_pc' = "read" /\ UNCHANGED s_out
       ELSE s_pc' = "returned" /\ s_out' = "deadline"
    /\ UNCHANGED <<wire, frame, response, s_deadline, expected, rxbuf, decoded, fw_info>>
    /\ UNCHANGED <<bridgeAll, now, rl_busy, execVars>>

\* byte = ser.read(1) gets a byte, ser.read(ser.in_waiting) the ones that
\* came with it; then the completeness check
SarBytes ==
    /\ s_pc = "read"
    /\ wire # <<>>
    /\ \E k \in 1..Len(wire) :
         LET got == response \o SubSeq(wire, 1, k)
             chk == CompletenessCheck(got)
         IN  /\ response' = got
             /\ wire' = SubSeq(wire, k + 1, Len(wire))
             /\ expected' = chk
             /\ IF Complete(got, chk)
                THEN s_pc' = "returned" /\ s_out' = "complete"
                ELSE s_pc' = "loop" /\ UNCHANGED s_out
    /\ UNCHANGED <<frame, s_deadline, rxbuf, decoded, fw_info>>
    /\ UNCHANGED <<bridgeAll, now, rl_busy, execVars>>

\* ser.read(1) times out after min(0.5, remaining) and returns nothing
SarTimeout ==
    /\ s_pc = "read"
    /\ now' = now + Min(ReadSlice, s_deadline - now)
    /\ s_pc' = "loop"
    /\ UNCHANGED <<wire, frame, response, s_deadline, expected, s_out, rxbuf, decoded,
                   fw_info>>
    /\ UNCHANGED <<bridgeAll, rl_busy, execVars>>

\* "except (serial.SerialException, OSError): break"
SarError ==
    /\ s_pc = "read"
    /\ s_pc' = "returned"
    /\ s_out' = "error"
    /\ UNCHANGED <<wire, frame, response, s_deadline, expected, rxbuf, decoded, fw_info>>
    /\ UNCHANGED <<bridgeAll, now, rl_busy, execVars>>

\* the version fields read from data_start on
Firmware(data, data_start, is_ext) ==
    [found |-> TRUE,
     fw |-> <<At(data, data_start + 2), At(data, data_start + 3)>>,
     hw |-> <<At(data, data_start + 4), At(data, data_start + 5)>>,
     at |-> data_start, ext |-> is_ext]

\* the body of parse_firmware_response's loop for a sync byte at data[i]
\* that has a header behind it
FirmwareAt(data, i) ==
    LET header == At(data, i + 1)
        cmd == (header \div 16) * 16
        length == header % 16
    IN  IF cmd = 240 /\ length >= 1
        THEN LET data_start == i + 2 IN
             IF length >= 6 /\ data_start + 6 <= Len(data) /\ At(data, data_start) = 0
             THEN Firmware(data, data_start, FALSE)
             ELSE NoFirmware
        ELSE IF length = 6
        THEN IF i + 2 < Len(data)
             THEN LET ext_len == At(data, i + 2)
                      data_start == i + 3
                  IN  IF ext_len >= 6 /\ data_start + ext_len <= Len(data)
                         /\ At(data, data_start) = 0
                      THEN Firmware(data, data_start, TRUE)
                      ELSE NoFirmware
             ELSE NoFirmware
        ELSE NoFirmware

\* "if data[i] == SYNC_BYTE and i + 1 < len(data):" and the body returns
Returns(data, i) ==
    At(data, i) = SYNC_BYTE /\ i + 1 < Len(data) /\ FirmwareAt(data, i).found

\* for i in range(len(data)): the first i whose body returns decides
ParseFrom(data) ==
    IF \E i \in 0..(Len(data) - 1) : Returns(data, i)
    THEN FirmwareAt(data, CHOOSE i \in 0..(Len(data) - 1) :
                              Returns(data, i) /\ \A j \in 0..(i - 1) : ~Returns(data, j))
    ELSE NoFirmware

\* parse_firmware_response(data)
parse_firmware_response(data) ==
    IF data = <<>> \/ Len(data) < 3 THEN NoFirmware ELSE ParseFrom(data)

\* diagnose_port: "if response: fw_info = parse_firmware_response(response)"
ParseFirmware ==
    /\ s_pc = "returned"
    /\ response # <<>>
    /\ fw_info' = parse_firmware_response(response)
    /\ rxbuf' = response
    /\ s_pc' = "parsed"
    /\ UNCHANGED <<wire, frame, response, s_deadline, expected, s_out, decoded>>
    /\ UNCHANGED <<bridgeAll, now, rl_busy, execVars>>

(***************************************************************************)
(* The encoder and the decoder proper live in bioradio.py, which is not    *)
(* among the sources: they follow the written protocol description (sync,  *)
(* header = command nibble and length nibble, optional extended-length     *)
(* byte, payload).  The decoder takes a frame's length as send_and_read    *)
(* computes it.                                                            *)
(***************************************************************************)
\* the length nibble that announces an extended-length byte
ExtendedSentinel == 6

\* the longest payload one length byte can express
MaxExtLen == 255

\* encode(command, payload)
Encode(command, payload) ==
    IF Len(payload) < ExtendedSentinel
    THEN <<SYNC_BYTE, command * 16 + Len(payload)>> \o payload
    ELSE <<SYNC_BYTE, command * 16 + ExtendedSentinel, Len(payload)>> \o payload

Drop(buf, n) == SubSeq(buf, n + 1, Len(buf))

\* try_parse(buffer): Incomplete, Garbage(consumed) or Frame(frame, consumed)
TryParse(buf) ==
    IF ~Has(buf, SYNC_BYTE)
    THEN [kind |-> "Incomplete", frame |-> NoFrame, consumed |-> 0]
    ELSE IF Index(buf, SYNC_BYTE) > 0
    THEN [kind |-> "Garbage", frame |-> NoFrame, consumed |-> Index(buf, SYNC_BYTE)]
    ELSE IF Len(buf) < 2
    THEN [kind |-> "Incomplete", frame |-> NoFrame, consumed |-> 0]
    ELSE LET total == ExpectedLength(buf, 0)
             data_start == IF total.ext THEN 3 ELSE 2
         IN  IF ~total.known \/ Len(buf) < total.value
             THEN [kind |-> "Incomplete", frame |-> NoFrame, consumed |-> 0]
             ELSE [kind |-> "Frame",
                   frame |-> [command |-> At(buf, 1) \div 16,
                              payload |-> SubSeq(buf, data_start + 1, total.value)],
                   consumed |-> total.value]

\* the caller hands the reply to the decoder until it reports Incomplete
DecodeStep ==
    /\ s_pc = "parsed"
    /\ LET r == TryParse(rxbuf) IN
         /\ rxbuf' = Drop(rxbuf, r.consumed)
         /\ decoded' = IF r.kind = "Frame" THEN Append(decoded, r.frame) ELSE decoded
         /\ s_pc' = IF r.kind = "Incomplete" THEN "decoded" ELSE "parsed"
    /\ UNCHANGED <<wire, frame, response, s_deadline, expected, s_out, fw_info>>
    /\ UNCHANGED <<bridgeAll, now, rl_busy, execVars>>

(***************************************************************************)
(* SpecCodec: one request, the device's reply arriving in pieces           *)
(***************************************************************************)
\* the longest payload but for the one of MaxExtLen bytes
MaxFrameLen == 7

\* command nibbles: SetMode, GetMode, GetGlobal
Commands == {2, 3, 15}

\* first bytes of a payload: a parameter id, a length-like value, a sync byte
FirstBytes == {0, 6, SYNC_BYTE}

\* a payload of n bytes, each one more than the one before it
Pattern(first, n) == [i \in 1..n |-> (first + i - 1) % 256]

CodecPayloads ==
    {Pattern(f, n) : f \in FirstBytes, n \in 0..MaxFrameLen}
        \cup {Pattern(0, MaxExtLen)}

Frames == [command : Commands, payload : CodecPayloads]

\* bytes in front of the reply that are no sync byte
Garbages == {<<>>, <<1>>}

\* replies no encoder makes: a length nibble above the sentinel
RawReplies ==
    {<<SYNC_BYTE, 15 * 16 + 7, 0, 1, 2, 3, 4, 5>>,
     <<SYNC_BYTE, 3 * 16 + 15, 2, 9, 9>>}

InitCodec ==
    /\ BridgeInit
    /\ IoInit
    /\ AuditInit
    /\ ExecInit
    /\ services = <<>>
    /\ channel_id = 1
    /\ sdp_channels = <<>>
    /\ channels_to_try = <<>>
    /\ cpc = "input"
    /\ dev \in [def : {CHOOSE b \in DefaultBehaviours : TRUE},
                special : [SpecialChannels -> {CHOOSE b \in DefaultBehaviours : TRUE}]]
    /\ \/ /\ frame \in Frames
          /\ \E g \in Garbages : wire = g \o Encode(frame.command, frame.payload)
       \/ /\ frame = NoFrame
          /\ wire \in RawReplies
    /\ response = <<>>
    /\ s_pc = "idle"
    /\ s_deadline = 0
    /\ expected = NoExpected
    /\ s_out = "none"
    /\ rxbuf = <<>>
    /\ decoded = <<>>
    /\ fw_info = NoFirmware

NextCodec ==
    \/ SendAndRead
    \/ SarLoop
    \/ SarBytes
    \/ SarTimeout
    \/ SarError
    \/ ParseFirmware
    \/ DecodeStep

SpecCodec == InitCodec /\ [][NextCodec]_vars

(***************************************************************************)
(* C1: the bytes read() returns are, in order, the bytes the data          *)
(* callbacks delivered: what was returned is a prefix of what was          *)
(* delivered, and the rest is, in order, the bytes of the read in progress *)
(* and the bytes still buffered; nothing is lost, doubled or reordered.    *)
(***************************************************************************)
IsPrefix(a, b) == Len(a) <= Len(b) /\ SubSeq(b, 1, Len(a)) = a

C1_ArrivalOrder ==
    /\ IsPrefix(returned, delivered)
    /\ delivered = returned \o r_result \o buffer

\* an earlier read has returned a byte, the read in progress holds the next
\* one, and a later callback's byte waits in the buffer
C1_Witness ==
    /\ returned # <<>>
    /\ r_result # <<>>
    /\ buffer # <<>>
    /\ returned[1] # r_result[1]
    /\ cb_pc = "set_event"

(***************************************************************************)
(* C2: a read() that was blocked when the channel-closed callback fired    *)
(* returns at once: woken by the closure, it does not wait on the data     *)
(* event again, whatever the timeout (None included).                      *)
(***************************************************************************)
C2_ClosedEndsRead == ~(closed_wake = "woken" /\ rpc = "wait")

(***************************************************************************)
(* C3: a read() on an open transport that never received data returns an   *)
(* empty result, and not before its timeout has elapsed.                   *)
(***************************************************************************)
C3_AnySize ==
    (rpc = "return" /\ delivered = <<>>) =>
        /\ r_result = <<>>
        /\ ~IsNone(timeout)
        /\ now - r_start >= timeout

\* C3 as amended: the same for size >= 1; read(0) returns at once
C3_TimedOutReadIsEmpty ==
    (rpc = "return" /\ delivered = <<>> /\ size >= 1) =>
        /\ r_result = <<>>
        /\ ~IsNone(timeout)
        /\ now - r_start >= timeout

\* a read of the longest timeout returns, empty, exactly when it has elapsed
C3_Witness ==
    /\ rpc = "return"
    /\ delivered = <<>>
    /\ size >= 1
    /\ timeout = MaxTimeout
    /\ now - r_start = timeout
    /\ r_result = <<>>

(***************************************************************************)
(* C4: if every attempt on the candidates before channel c fails (the      *)
(* native call returns non-zero, or the open-complete callback reports a   *)
(* non-zero status) and the attempt on c is confirmed by an open-complete  *)
(* callback of status 0, open() returns True with is_open and              *)
(* channel_id = c.                                                         *)
(***************************************************************************)
FailsToOpen(b) ==
    /\ b.sync # kIOReturnSuccess \/ b.scb = "err"
    /\ b.async # kIOReturnSuccess \/ b.acb = "err"

ConfirmedOpen(b) ==
    \/ b.sync = kIOReturnSuccess /\ b.scb = "ok"
    \/ b.sync # kIOReturnSuccess /\ b.async = kIOReturnSuccess /\ b.acb = "ok"

\* an open() call that got as far as the candidate loop has ended
OpenEnded == pc = "idle" /\ attempts # <<>>

C4_FirstConfirmedWins ==
    (OpenEnded /\ ~closed_seen) =>
        \A c \in 1..Len(channels_to_try) :
            ( /\ ConfirmedOpen(DevAt(dev, channels_to_try[c]))
              /\ \A p \in 1..(c - 1) : FailsToOpen(DevAt(dev, channels_to_try[p])) )
            => /\ outcome = "true"
               /\ is_open
               /\ channel_id = channels_to_try[c]

(***************************************************************************)
(* C5: open() tries the candidates in list order, for each one the         *)
(* synchronous open first and the asynchronous open only after a           *)
(* synchronous open that was not confirmed; a confirmed open ends the      *)
(* search, and its channel is the accepted one.  The log only grows at its *)
(* end, so the statement about its last two entries, in every state, is    *)
(* the statement about every entry.                                        *)
(***************************************************************************)
C5_AttemptOrder ==
    attempts # <<>> =>
        LET n == Len(attempts)
            a == attempts[n]
        IN  /\ a.k \in 1..Len(channels_to_try)
            /\ a.ch = channels_to_try[a.k]
            /\ n = 1 => a.mode = "sync" /\ a.k = 1
            /\ n > 1 =>
                 LET b == attempts[n - 1] IN
                 /\ ~b.conf
                 /\ a.mode = "sync" => a.k = b.k + 1
                 /\ a.mode = "async" =>
                       b.mode = "sync" /\ b.k = a.k /\ b.res # kIOReturnSuccess
            /\ a.conf => channel_id = a.ch /\ pc \notin {"o_sync", "o_async"}

\* the asynchronous open of a later candidate was confirmed after failures
C5_Witness ==
    /\ OpenEnded
    /\ outcome = "true"
    /\ Len(attempts) >= 4
    /\ attempts[Len(attempts)].mode = "async"
    /\ attempts[Len(attempts)].conf
    /\ channel_id = attempts[Len(attempts)].ch

(***************************************************************************)
(* C6: the list is the SDP channels in record order, then the user channel *)
(* if it is not among them, then the channels of 1..30 not yet present in  *)
(* ascending order; every channel of 1..30 is in the list.                 *)
(***************************************************************************)
C6_ListOrder ==
    cpc = "built" =>
        LET l == channels_to_try
            n == Len(sdp_channels)
            u == IF InList(channel_id, sdp_channels) THEN 0 ELSE 1
        IN  /\ Len(l) >= n + u
            /\ SubSeq(l, 1, n) = sdp_channels
            /\ u = 1 => l[n + 1] = channel_id
            /\ \A i \in (n + u + 1)..Len(l) :
                  /\ l[i] \in 1..LastChannel
                  /\ ~InList(l[i], SubSeq(l, 1, n + u))
                  /\ i > n + u + 1 => l[i - 1] < l[i]
            /\ \A c \in 1..LastChannel : InList(c, l)

\* the spec's example: SDP [3, 7] (one record without a channel), fallback 1
C6_Witness ==
    /\ cpc = "built"
    /\ Len(services) = 3
    /\ sdp_channels = <<3, 7>>
    /\ channel_id = 1
    /\ SubSeq(channels_to_try, 1, 9) = <<3, 7, 1, 2, 4, 5, 6, 8, 9>>
    /\ Len(channels_to_try) = LastChannel

(***************************************************************************)
(* C7: no channel id appears twice in the candidate list.                  *)
(***************************************************************************)
C7_NoDuplicates ==
    cpc = "built" =>
        \A i, j \in 1..Len(channels_to_try) :
            i # j => channels_to_try[i] # channels_to_try[j]


(***************************************************************************)
(* C8: when no candidate yields a confirmed open, open() raises, and the   *)
(* error carries every attempted channel's failure code and the SDP        *)
(* discovery results.                                                      *)
(***************************************************************************)
Codes(log) == [i \in 1..Len(log) |-> log[i].res]

C8_ErrorListsEveryAttempt ==
    (OpenEnded /\ ~ok_seen) =>
        /\ outcome = "raised"
        /\ err.codes = Codes(attempts)
        /\ err.has_sdp
        /\ err.sdp = sdp_channels

\* C8 as amended: open() raises; the error of an exhausted search carries
\* the last attempt's code and the SDP results, the error after an
\* unconfirmed synchronous open carries neither the attempts nor the SDP results
C8_ErrorCarriesLastCode ==
    (OpenEnded /\ ~ok_seen) =>
        LET last == attempts[Len(attempts)] IN
        /\ outcome = "raised"
        /\ err.kind \in {"NoChannel", "OpenTimeout", "OpenError"}
        /\ err.kind = "NoChannel" =>
              /\ last.k = Len(channels_to_try)
              /\ err.codes = <<last.res>>
              /\ err.has_sdp
              /\ err.sdp = sdp_channels
        /\ err.kind # "NoChannel" =>
              /\ last.mode = "sync"
              /\ last.res = kIOReturnSuccess
              /\ ~err.has_sdp

\* every candidate was tried in both sub-modes and none opened
C8_Witness ==
    /\ OpenEnded
    /\ ~ok_seen
    /\ err.kind = "NoChannel"
    /\ sdp_channels # <<>>
    /\ Len(attempts) = 2 * Len(channels_to_try)

(***************************************************************************)
(* C9: after an open() that raised the transport is not open, and the next *)
(* open() makes a whole new attempt: it does not return True without one,  *)
(* and it starts its search at the first candidate of a list built from    *)
(* what the device advertises now.                                         *)
(***************************************************************************)
C9_FailedOpenRetry ==
    /\ (pc = "idle" /\ outcome = "raised") => ~is_open
    /\ (prev_failed /\ outcome = "true") => attempts # <<>>
    /\ (prev_failed /\ pc = "o_sync" /\ idx = 1) =>
          /\ attempts = <<>>
          /\ sdp_channels = PerformSdpQuery(services)
          /\ channels_to_try = ChannelsToTry(sdp_channels, channel_id)

\* the retry of a failed open() succeeded, on a channel found by discovery
C9_Witness ==
    /\ prev_failed
    /\ pc = "idle"
    /\ outcome = "true"
    /\ is_open
    /\ sdp_channels # <<>>
    /\ channel_id = sdp_channels[1]

(***************************************************************************)
(* C10: every close() returns without raising and leaves the transport     *)
(* closed: is_open False, in_waiting 0, no RunLoop thread kept.            *)
(***************************************************************************)
C10_CloseTotal ==
    (pc = "idle" /\ outcome \in {"closed", "close_raised"}) =>
        /\ outcome = "closed"
        /\ ~is_open
        /\ in_waiting = 0
        /\ ~runloop_thread

(***************************************************************************)
(* C11: a close() in which a native teardown call failed (closeChannel,    *)
(* the isConnected() query, closeConnection) still returns normally and    *)
(* performs the rest of the teardown: the RunLoop thread is stopped and    *)
(* dropped and the transport is marked closed.                             *)
(***************************************************************************)
CloseEnded == pc = "idle" /\ outcome \in {"closed", "close_raised"}

C11_CloseInfallible ==
    (CloseEnded /\ faults # {}) =>
        /\ outcome = "closed"
        /\ ~runloop_thread
        /\ ~b_is_open
        /\ ~delegate

(***************************************************************************)
(* C12: once the channel-closed callback has been delivered to the         *)
(* bridge's delegate the transport is closed: is_open is False, and a      *)
(* write() made after it raises IOError without a native write.            *)
(***************************************************************************)
C12_DisconnectCloses ==
    /\ (delegate /\ closed_event) => ~is_open
    /\ wr.closed => (wr.out = "IOError" /\ wr.native = <<>>)

(***************************************************************************)
(* C13: when open() returns True, is_open is True at that moment, whatever *)
(* opens, closes and remote disconnects came before the call (a disconnect *)
(* during the call itself is left aside).                                  *)
(***************************************************************************)
C13_OpenTrueIsOpen ==
    (pc = "idle" /\ outcome = "true" /\ ~closed_seen) => is_open

(***************************************************************************)
(* C14: while the RunLoop thread exists, the calling thread makes none of  *)
(* the native device or channel calls itself: service enumeration,         *)
(* setDelegate, write, closeChannel, closeConnection.                      *)
(***************************************************************************)
AffineCalls == {"services", "setDelegate", "write", "closeChannel", "closeConnection"}

C14_ThreadAffinity == direct \cap AffineCalls = {}

(***************************************************************************)
(* C19: when the baseband connection does not open (non-zero status, or    *)
(* the scheduled call does not complete in time), open() raises            *)
(* ConnectionError and goes on neither to discovery nor to a channel open. *)
(***************************************************************************)
BasebandFailed ==
    /\ pc = "idle"
    /\ outcome = "raised"
    /\ err.kind \in {"Baseband", "BasebandTimeout"}

C19_BasebandFailureIsConnectionError ==
    BasebandFailed =>
        /\ ExceptionType(err.kind) = "ConnectionError"
        /\ "services" \notin direct
        /\ channels_to_try = <<>>
        /\ attempts = <<>>

Ids(n) == [i \in 1..n |-> i]

C15_SubmissionOrder ==
    /\ begun = Ids(Len(begun))
    /\ finished = Ids(Len(finished))
    /\ Len(finished) = IF rl_pc = "exec" THEN Len(begun) - 1 ELSE Len(begun)
    /\ rl_pc = "exec" => cur = Len(begun)
    /\ work_queue = SubSeq(Ids(Len(items)), Len(begun) + 1, Len(items))

\* items of both threads have run, the second thread's before the first's,
\* and another one is still queued
C15_Witness ==
    /\ Len(finished) >= 2
    /\ items[1].by = 2
    /\ items[2].by = 1
    /\ work_queue # <<>>

(***************************************************************************)
(* C16: an executed item's completion event has been set exactly once,     *)
(* for a func that returned and for one that raised, and an item not yet   *)
(* executed has it unset; a caller that saw its event gets its own item's  *)
(* outcome: the value if func returned, the exception if it raised.        *)
(***************************************************************************)
C16_OwnResultOnce ==
    /\ \A i \in 1..Len(items) :
          items[i].done = IF InList(i, finished) THEN 1 ELSE 0
    /\ \A s \in Submitters :
          LET r == sched_ret[s] IN
          r.kind \in {"result", "error"} =>
              /\ items[r.item].by = s
              /\ r.kind = "error" <=> items[r.item].raises
              /\ r.kind = "result" => r.val = ResultOf(r.item)
              /\ r.kind = "error" => r.val = ErrorOf(r.item)

\* one thread got its func's exception after the other thread's item ran,
\* and that one got its value
C16_Witness ==
    /\ sched_ret[1].kind = "error"
    /\ sched_ret[2].kind = "result"
    /\ sched_ret[2].item < sched_ret[1].item

(***************************************************************************)
(* C17: a thread is not inside schedule_and_wait any more once its timeout *)
(* has expired, counted from the call.                                     *)
(***************************************************************************)
C17_ReturnsOnExpiry ==
    \A s \in Submitters :
        Submitting(s) => now <= sub[s].start + sub[s].timeout

(***************************************************************************)
(* C18: open() never blocks for ever: a call that has begun returns True   *)
(* or raises, also when the device answers nothing and no callback comes.  *)
(***************************************************************************)
C18_OpenReturns == (pc # "idle") ~> (pc = "idle")

(***************************************************************************)
(* C21: in send_and_read the frame length counted from the first sync byte *)
(* is 2 + n for a short-form length nibble n (0..5) and 3 + ext_len for    *)
(* the sentinel nibble, ext_len being the byte after the header; while the *)
(* header or the extended-length byte is missing no length is assumed and  *)
(* the frame is not taken as complete.                                     *)
(***************************************************************************)
\* the length nibble of the header behind the first sync byte
Nibble(resp) == At(resp, Index(resp, SYNC_BYTE) + 1) % 16

HeaderArrived(resp) ==
    Has(resp, SYNC_BYTE) /\ Index(resp, SYNC_BYTE) + 1 < Len(resp)

ExtArrived(resp) ==
    Has(resp, SYNC_BYTE) /\ Index(resp, SYNC_BYTE) + 2 < Len(resp)

C21_FrameLengthRule ==
    /\ expected.known =>
         /\ HeaderArrived(response)
         /\ Nibble(response) < ExtendedSentinel =>
              expected.value = Index(response, SYNC_BYTE) + 2 + Nibble(response)
         /\ Nibble(response) = ExtendedSentinel =>
              /\ ExtArrived(response)
              /\ expected.value = Index(response, SYNC_BYTE) + 3
                                    + At(response, Index(response, SYNC_BYTE) + 2)
    /\ s_out = "complete" => expected.known

\* an extended-form reply was assembled and taken as complete at exactly
\* its length
C21_Witness ==
    /\ s_out = "complete"
    /\ frame # NoFrame
    /\ Len(frame.payload) >= ExtendedSentinel
    /\ expected.ext
    /\ expected.value = Len(response)

(***************************************************************************)
(* C22: the extended-length byte is consulted only when the low nibble of  *)
(* the header is 6; a header whose low nibble is 7..15 is never read as an *)
(* extended-length frame, in send_and_read and in parse_firmware_response. *)
(***************************************************************************)
C22_ExtendedOnlyForSentinel ==
    /\ expected.ext => Nibble(response) = ExtendedSentinel
    /\ (fw_info.found /\ fw_info.ext) =>
         At(response, fw_info.at - 2) % 16 = ExtendedSentinel

(***************************************************************************)
(* C23: decoding an encoded frame gives back its command and payload, for  *)
(* every command nibble and payload of 0..255 bytes; a payload of 0..5     *)
(* bytes is encoded as sync, header with the length in its low nibble,     *)
(* payload, and one of 6..255 bytes in exactly payload length + 3 bytes.   *)
(***************************************************************************)
\* the whole reply has arrived and was handed to the decoder
AllDecoded == s_pc = "decoded" /\ wire = <<>>

C23_RoundTrip ==
    /\ (frame # NoFrame /\ decoded # <<>>) => decoded = <<frame>>
    /\ (AllDecoded /\ frame # NoFrame) => (decoded = <<frame>> /\ rxbuf = <<>>)
    /\ (wire = <<>> /\ frame # NoFrame /\ response # <<>>) =>
         LET s == Index(response, SYNC_BYTE)
             n == Len(frame.payload)
         IN  IF n < ExtendedSentinel
             THEN /\ Len(response) - s = n + 2
                  /\ At(response, s + 1) = frame.command * 16 + n
                  /\ SubSeq(response, s + 3, Len(response)) = frame.payload
             ELSE /\ Len(response) - s = n + 3
                  /\ At(response, s + 1) = frame.command * 16 + ExtendedSentinel
                  /\ At(response, s + 2) = n

\* an extended-form frame of the longest payload came back from the decoder
C23_Witness ==
    /\ AllDecoded
    /\ decoded = <<frame>>
    /\ Len(frame.payload) = MaxExtLen

(***************************************************************************)
(* C24: a frame is complete exactly when the bytes accumulated from the    *)
(* first sync byte on hold its total length: send_and_read returns as soon *)
(* as that holds, also for a 2-byte frame with an empty payload, and does  *)
(* not return before the deadline while the frame is incomplete.           *)
(***************************************************************************)
\* the accumulated bytes hold a whole frame from the first sync byte on
FrameComplete(resp) ==
    /\ HeaderArrived(resp)
    /\ IF Nibble(resp) < ExtendedSentinel
       THEN Len(resp) >= Index(resp, SYNC_BYTE) + 2 + Nibble(resp)
       ELSE /\ ExtArrived(resp)
            /\ Len(resp) >= Index(resp, SYNC_BYTE) + 3
                              + At(resp, Index(resp, SYNC_BYTE) + 2)

C24_CompleteExactly ==
    frame # NoFrame =>
        /\ s_pc \in {"loop", "read"} => ~FrameComplete(response)
        /\ (s_pc = "returned" /\ s_out \in {"complete", "deadline"}
              /\ ~FrameComplete(response)) => now >= s_deadline

(***************************************************************************)
(* C25: for a well-formed GetGlobal reply in extended form (command nibble *)
(* 0xF, length nibble 6, extended length at least 6, payload beginning     *)
(* with parameter id 0) parse_firmware_response returns the version taken  *)
(* from the payload bytes behind the extended-length byte.                 *)
(***************************************************************************)
\* the reply the parser was given is a whole extended-form version reply
ExtendedVersionReply ==
    /\ s_pc \in {"parsed", "decoded"}
    /\ wire = <<>>
    /\ frame # NoFrame
    /\ frame.command = 15
    /\ Len(frame.payload) >= ExtendedSentinel
    /\ frame.payload[1] = 0

C25_ExtendedFirmwareReply ==
    ExtendedVersionReply =>
        /\ fw_info.found
        /\ fw_info.fw = <<frame.payload[3], frame.payload[4]>>
        /\ fw_info.hw = <<frame.payload[5], frame.payload[6]>>

(***************************************************************************)
(* C26: the life of the executor goes NotStarted, Running, Stopping,       *)
(* Stopped and never backwards: once stop() was called the RunLoop thread  *)
(* begins no cycle after the one in progress, it ends (work items and      *)
(* run-loop slices returning), and a thread that ended does not run again. *)
(***************************************************************************)
\* 0 NotStarted, 1 Running, 2 Stopping, 3 Stopped
ExecutorState ==
    IF rl_pc = "exited" THEN 3
    ELSE IF stop_event THEN 2
    ELSE IF rl_pc # "new" THEN 1
    ELSE 0

C26_ExecutorLifecycle ==
    /\ [][ExecutorState' >= ExecutorState]_vars
    /\ [][(stop_event /\ rl_pc = "loop") => rl_pc' \in {"loop", "exited"}]_vars
    /\ [][rl_pc = "exited" => rl_pc' = "exited"]_vars
    /\ stop_event ~> (rl_pc = "exited")

\* a thread that was stopped in the middle of a work item has ended, the
\* item finished and the rest of the queue left behind
C26_Witness ==
    /\ rl_pc = "exited"
    /\ finished # <<>>
    /\ work_queue # <<>>

(***************************************************************************)
(* C29: every work item submitted through schedule_and_wait is in the end  *)
(* taken from the queue and executed and its completion event set, when    *)
(* every executed item returns and stop() is not called before the item is *)
(* taken from the queue, the RunLoop thread being scheduled fairly.        *)
(***************************************************************************)
InQueue(id) == InList(id, work_queue)

Done(id) == id <= Len(items) /\ items[id].done > 0

C29_WorkQueueLiveness ==
    \A id \in 1..MaxItems :
        /\ InQueue(id) ~> (cur = id \/ Done(id) \/ stop_event)
        /\ (cur = id) ~> Done(id)

\* an item that waited in the queue behind another one was executed
C29_Witness ==
    \E id \in 2..MaxItems :
        /\ Done(id)
        /\ ~stop_event
        /\ begun[Len(begun)] = id
        /\ finished = begun

(***************************************************************************)
(* C28: one executor thread per transport: over any sequence of open()     *)
(* calls, successful or failed, and close() calls at most one RunLoop      *)
(* thread made for the bridge is alive, and open() starts one only when    *)
(* none is running.                                                        *)
(***************************************************************************)
\* the RunLoop threads of the bridge that were started and not stopped
AliveThreads == leaked + (IF runloop_thread THEN 1 ELSE 0)

C28_OneExecutor == AliveThreads <= 1

(***************************************************************************)
(* C27: every candidate channel id open() tries lies in the legal RFCOMM   *)
(* range 1..30, whatever channel_id the user gave and whatever the SDP     *)
(* discovery returned.                                                     *)
(***************************************************************************)
C27_CandidatesInRange ==
    cpc = "built" =>
        \A i \in 1..Len(channels_to_try) : channels_to_try[i] \in 1..LastChannel

(***************************************************************************)
(* C30: whenever open() returns True, _channel_id is the id of the channel *)
(* whose open was confirmed and which the current delegate and the channel *)
(* handle belong to, at whatever moment the open-complete callback comes   *)
(* relative to the waits of open().                                        *)
(***************************************************************************)
\* open() went through the search and returned True
OpenedNow == OpenEnded /\ outcome = "true" /\ attempts # <<>>

C30_ChannelIdIsOpened ==
    OpenedNow =>
        /\ channel_id = channel
        /\ channel_id = attempts[Len(attempts)].ch

(***************************************************************************)
(* C31: is_open is True only if the open of the current channel was        *)
(* accepted and no channel-closed callback came for it since: a write of   *)
(* the opening thread to the delegate's open flag masks no closed or       *)
(* open-failed notification of the callback thread.                        *)
(***************************************************************************)
C31_OpenFlagNotMasked ==
    is_open =>
        /\ ok_seen \/ result = kIOReturnSuccess
        /\ ~closed_event
        /\ open_error = 0

(***************************************************************************)
(* C33: in_waiting and read() agree: while close() has not been called, a  *)
(* read(size >= 1) made when in_waiting reports n > 0 returns at least one *)
(* byte; bytes the data callback delivered before a disconnect by the      *)
(* remote end stay readable.                                               *)
(***************************************************************************)
C33_WaitingBytesAreRead == rd.out = "bytes" => ~rd.owed

(***************************************************************************)
(* C32: read() and write() running while another thread calls close() end  *)
(* in their documented outcomes only: read() returns bytes (maybe none),   *)
(* write() returns len(data) or raises IOError; neither fails with an      *)
(* exception that comes from the delegate or the channel being torn down   *)
(* under it.                                                               *)
(***************************************************************************)
C32_DocumentedOutcomes ==
    /\ rd.out \in {"none", "running", "bytes"}
    /\ wr.out \in {"none", "begun", "returned", "IOError"}
    /\ wr.out = "returned" => wr.n = wr.len

(***************************************************************************)
(* C38: no lost wakeup: in every state in which no data callback is in the *)
(* middle of its execution, a receive buffer that is not empty implies     *)
(* that the data-available event is set, however the data callback,        *)
(* read_bytes and clear_buffer interleave.                                 *)
(***************************************************************************)
C38_NoLostWakeup ==
    (cb_pc = "idle" /\ buffer # <<>>) => data_event

\* the reader has taken bytes, a clear_buffer has thrown bytes away, and
\* bytes of a later data callback wait in the buffer with the event set
C38_Witness ==
    /\ cb_pc = "idle"
    /\ rpc = "check"
    /\ r_result # <<>>
    /\ buffer # <<>>
    /\ data_event
    /\ Len(delivered) > Len(returned) + Len(r_result) + Len(buffer)

(***************************************************************************)
(* C34: a work item whose schedule_and_wait call has timed out is never    *)
(* executed afterwards: the RunLoop thread does not begin an item that was *)
(* still waiting in the queue when its caller gave up.                     *)
(***************************************************************************)
\* the caller of item id got TimeoutError while the item had not been begun
GivenUp(id) ==
    /\ \E s \in Submitters : sched_ret[s].kind = "timeout" /\ sched_ret[s].item = id
    /\ ~InList(id, begun)

C34_TimedOutNeverRuns ==
    [][\A id \in 1..Len(items) : GivenUp(id) => ~InList(id, begun')]_vars

(***************************************************************************)
(* C35: when open() ends, by returning True or by raising, no channel but  *)
(* the accepted one is open or has an open under way: of every attempt     *)
(* that was begun and given up, the native open can complete no more.      *)
(***************************************************************************)
\* the native open of an attempt that was given up is still under way, and
\* its completion will report success
OpenUnderWay == \E p \in pending : p.stale /\ p.status = kIOReturnSuccess

C35_NoOtherChannel == (OpenEnded /\ attempts # <<>>) => ~OpenUnderWay

(***************************************************************************)
(* C36: a callback that belongs to an open attempt which was given up, an  *)
(* earlier candidate or sub-mode or an earlier call, changes nothing of    *)
(* the delegate of the attempt open() is at or has accepted: not its open  *)
(* flag, its error, its events or its buffer.                              *)
(***************************************************************************)
\* callback p is delivered in this step
Delivered(p) == pending' = pending \ {p} /\ attempts' = attempts

\* p was bound to an attempt before the one the bridge's delegate is of
OfEarlierAttempt(p) == ~p.cur \/ p.att # Len(attempts)

FirstOpenRaised == calls = 1 /\ pc = "idle" /\ outcome = "raised"

C37_ChannelIdKeptOnFailure == FirstOpenRaised => channel_id \in UserChannels

====
